---- MODULE Spec2Model ----
(***************************************************************************)
(* A model of find_moving_objects::Bank (bank.cpp): the circular bank of   *)
(* EMA-smoothed range profiles, its two ingestion adapters (LaserScan and  *)
(* PointCloud2), and findAndReportMovingObjects (segmentation of the       *)
(* newest slot, recursive tracking through the bank, kinematics, speed and *)
(* confidence thresholds).                                                 *)
(*                                                                         *)
(* Numbers.  Ranges are held in centimetres, positions in millimetres,     *)
(* time stamps in seconds, confidences in hundredths.  A float is either   *)
(* an integer of that grid, Inf (+infinity, which LaserScan drivers send   *)
(* for "no return") or NaN.  The F* operators below give the IEEE-754      *)
(* results for the non-finite values (0 * Inf = NaN, every comparison with *)
(* NaN is false).  Rounding to the nearest float is modelled as rounding   *)
(* to the nearest grid value.                                              *)
(***************************************************************************)
EXTENDS Integers, Sequences, FiniteSets, TLC

(***************************************************************************)
(* Bounds of the model.                                                    *)
(***************************************************************************)
MaxDepth == 3
MaxTime == 5
MaxClouds == 3
MaxSeq == 2
MaxPoints == 2

(***************************************************************************)
(* Floats.                                                                 *)
(***************************************************************************)
Inf == 1000 * 1000
NaN == 0 - Inf

IsNaN(a) == a = NaN
IsInf(a) == a = Inf
IsFinite(a) == ~IsNaN(a) /\ ~IsInf(a)

FLt(a, b) == ~IsNaN(a) /\ ~IsNaN(b) /\ a < b
FLe(a, b) == ~IsNaN(a) /\ ~IsNaN(b) /\ a <= b

FAdd(a, b) ==
  IF IsNaN(a) \/ IsNaN(b) THEN NaN
  ELSE IF IsInf(a) \/ IsInf(b) THEN Inf
  ELSE a + b

\* k * v for a finite weight k >= 0
FMul(k, v) ==
  IF IsNaN(v) THEN NaN
  ELSE IF IsInf(v) THEN (IF k = 0 THEN NaN ELSE Inf)
  ELSE k * v

\* |a - b|
FAbsDiff(a, b) ==
  IF IsNaN(a) \/ IsNaN(b) THEN NaN
  ELSE IF IsInf(a) /\ IsInf(b) THEN NaN
  ELSE IF IsInf(a) \/ IsInf(b) THEN Inf
  ELSE IF a < b THEN b - a ELSE a - b

\* a / d for a finite d > 0, rounded to the nearest grid value
FDivRound(a, d) ==
  IF IsNaN(a) THEN NaN
  ELSE IF IsInf(a) THEN Inf
  ELSE (2 * a + d) \div (2 * d)

(***************************************************************************)
(* BankArgument: the values of the configuration the model runs with.      *)
(* ema_alpha is AlphaNum / AlphaDen with AlphaNum drawn from AlphaNums.    *)
(***************************************************************************)
AlphaDen == 2
AlphaNums == {0, 1, 2}
Depths == 2..MaxDepth
MinNrPoints == {2, 3}
PointsPerScan == 4
object_threshold_edge_max_delta_range == 10
object_threshold_max_distance == 650
object_threshold_min_speed == 30
object_threshold_max_delta_width_in_points == 1
object_threshold_min_confidence == 67
object_threshold_bank_tracking_max_delta_distance == 20
PC2_threshold_z_min == 10
PC2_threshold_z_max == 100

\* range_min / range_max of the LaserScan messages of the modelled sensor
LaserScanRangeMin == 10
LaserScanRangeMax == 1000
\* range_min the PointCloud2 init sets (0.01 m)
PointCloud2RangeMin == 1

Indices == 0..(PointsPerScan - 1)

(***************************************************************************)
(* Inputs.                                                                 *)
(***************************************************************************)
Prof(t) == [i \in Indices |-> t[i + 1]]

\* msg->ranges of the LaserScan messages delivered
LaserScans ==
  { Prof(<<200, 200, 500, 500>>),
    Prof(<<200, 200, 200, 200>>),
    Prof(<<230, 230, 800, 800>>),
    Prof(<<Inf, 200, 200, 200>>) }

\* A decoded point of a PointCloud2 message: its range sqrt(x*x+y*y+z*z),
\* the bank indices its angular extent maps to before clamping, and z.
Points ==
  { [range |-> 200, index_min |-> 0 - 1, index_max |-> 1, z |-> 50],
    [range |-> 500, index_min |-> 2, index_max |-> PointsPerScan, z |-> 50],
    [range |-> 150, index_min |-> 0, index_max |-> 3, z |-> 150] }

RECURSIVE SeqsUpTo(_, _)
SeqsUpTo(S, n) ==
  IF n = 0 THEN { <<>> }
  ELSE LET shorter == SeqsUpTo(S, n - 1)
       IN  shorter \cup { Append(s, p) : s \in { t \in shorter : Len(t) = n - 1 }, p \in S }

\* Datatype codes of sensor_msgs::PointField (INT8 = 1 ... FLOAT64 = 8)
Catalogs ==
  { [x |-> 7, y |-> 7, z |-> 7],
    [x |-> 7, y |-> 7, z |-> 0],
    [x |-> 7, y |-> 9, z |-> 7] }

\* The points of one message, in the order of its data
PointLists == SeqsUpTo(Points, MaxPoints)

PointCloud2s ==
  { [fields |-> c, points |-> p] : c \in Catalogs, p \in PointLists }

\* What an out-of-bounds or uninitialized read of a slot can yield
GarbageProfiles == { [i \in Indices |-> 0], [i \in Indices |-> NaN] }

VARIABLES
  sensor,               \* which interpreter node owns the bank
  bank_argument,        \* the BankArgument stored by the bank
  bank_is_initialized,
  bank_is_filled,
  bank_index_put,
  bank_index_newest,
  bank_ranges_ema,      \* slot -> index -> range
  bank_stamp,           \* slot -> time stamp
  moa_seq,
  env,                  \* the transform provider and the confidence scorer
  now,                  \* stamp of the last message delivered
  writes,               \* number of messages stored so far
  last,                 \* the last call: its name, return value, the number of
                        \* points it accepted and the raw profile of its message
                        \* (and the fields of the message of a PointCloud2 init)
  cycle,                \* what the last findAndReportMovingObjects did
  machine_is_little_endian,
  is_bigendian,         \* msg->is_bigendian of the messages of the sensor
  PC2_message,          \* PC2_message_{x,y,z}_offset and _bytes
  ROS_ASSERT_ENABLED    \* whether the build keeps ROS_ASSERT_MSG (no NDEBUG)

vars == << sensor, bank_argument, bank_is_initialized, bank_is_filled,
           bank_index_put, bank_index_newest, bank_ranges_ema, bank_stamp,
           moa_seq, env, now, writes, last, cycle,
           machine_is_little_endian, is_bigendian, PC2_message, ROS_ASSERT_ENABLED >>

\* What no message handler changes
hostVars == << machine_is_little_endian, is_bigendian, ROS_ASSERT_ENABLED >>

\* ROS_ASSERT_MSG of a condition that does not hold ends the process
Running == last.op # "abort"

bankVars == << bank_is_initialized, bank_is_filled, bank_index_put,
               bank_index_newest, bank_ranges_ema, bank_stamp >>

Slots == 0..(bank_argument.nr_scans_in_bank - 1)

NoProfile == [i \in Indices |-> NaN]
NoCycle == [ran |-> FALSE, candidates |-> <<>>, objects |-> <<>>]

(***************************************************************************)
(* Bank handling.                                                          *)
(***************************************************************************)
\* Bank::initIndex
initIndex == [put |-> 1, newest |-> 0]

\* Bank::advanceIndex
advanceIndex(put, newest, depth) ==
  [put |-> (put + 1) % depth, newest |-> (newest + 1) % depth]

\* Variant for C1: filled as soon as put is ahead of newest
FilledWhenPutAhead(put, newest) == newest < put

\* Variant for C27: filled by the first addMessage
FilledAtOnce(put, newest) == TRUE

\* The test after advanceIndex() in both addMessage overloads
FilledByAdvance(put, newest) == put < newest

\* Bank::resetPutPoints: the value every bin of the put slot is reset to
ResetRange == object_threshold_max_distance + 1000
resetPutPoints == [i \in Indices |-> ResetRange]

\* Bank::putPoints, the z test of one point
PointOutsideVolume(p) == FLt(p.z, PC2_threshold_z_min) \/ FLt(PC2_threshold_z_max, p.z)

\* Bank::putPoints, "const int bank_index_point_min = ...": the conversion
\* of a double to int.  The conversion of a NaN is undefined: it gives
\* INT_MIN where cvttsd2si does it, and 0 on other machines.
IntMin == 0 - 2147483647 - 1
NaNCasts == {0, IntMin}
CastToInt(v, nan_cast) == IF IsNaN(v) THEN nan_cast ELSE v

\* The conversions a message can meet
NaNCastsOf(pts) ==
  IF \E k \in 1..Len(pts) : IsNaN(pts[k].index_min) \/ IsNaN(pts[k].index_max)
  THEN NaNCasts ELSE {0}

\* Bank::putPoints, bank_index_point_min and bank_index_point_max of one
\* accepted point: the bounds of the loop over p
PointIndexSpan(p, nan_cast) ==
  [min |-> IF FLt(p.index_min, 0) THEN 0 ELSE CastToInt(p.index_min, nan_cast),
   max |-> IF FLt(PointsPerScan - 1, p.index_max) THEN PointsPerScan - 1
           ELSE CastToInt(p.index_max, nan_cast)]

\* Bank::putPoints, the bins bank_put[p] the loop visits for one accepted point
PointBins(p, nan_cast) ==
  PointIndexSpan(p, nan_cast).min..PointIndexSpan(p, nan_cast).max

\* Bank::putPoints: the put slot and the number of added points after the
\* points k..Len(pts) of the message have been read
RECURSIVE putPoints(_, _, _, _, _)
putPoints(bank_put, pts, k, added, nan_cast) ==
  IF k > Len(pts) THEN [bank_put |-> bank_put, added_points |-> added]
  ELSE LET p == pts[k]
       IN  IF PointOutsideVolume(p)
           THEN putPoints(bank_put, pts, k + 1, added, nan_cast)
           ELSE putPoints([i \in Indices |->
                             IF i \in PointBins(p, nan_cast) /\ FLt(p.range, bank_put[i])
                             THEN p.range ELSE bank_put[i]],
                          pts, k + 1, added + 1, nan_cast)

\* alpha * r + (1 - alpha) * prev, as both adapters compute it
Blend(alpha, r, prev) ==
  FDivRound(FAdd(FMul(alpha, r), FMul(AlphaDen - alpha, prev)), AlphaDen)

\* Variant for C21: the ranges of the message stored as they are
emaLaserScanUnblended(alpha, ranges, bank_newest) == ranges

\* Bank::addMessage(LaserScan), the loop writing the put slot
emaLaserScan(alpha, ranges, bank_newest) ==
  [i \in Indices |-> Blend(alpha, ranges[i], bank_newest[i])]

\* Bank::emaPutMessage
emaPutMessage(alpha, bank_put, bank_prev) ==
  IF alpha < AlphaDen
  THEN [i \in Indices |-> Blend(alpha, bank_put[i], bank_prev[i])]
  ELSE bank_put

\* Bank::getOffsetsAndBytes: the width a datatype code maps to (-1: none)
BytesOfDatatype(code) ==
  IF code \in {1, 2} THEN 1
  ELSE IF code \in {3, 4} THEN 2
  ELSE IF code \in {5, 6, 7} THEN 4
  ELSE IF code = 8 THEN 8
  ELSE 0 - 1

\* Bank::reverseBytes: the loop that swaps bytes[i] and bytes[nr_bytes-i-1]
\* for i < nr_bytes / 2 (sequences count from 1)
RECURSIVE reverseBytesFrom(_, _)
reverseBytesFrom(bytes, i) ==
  IF i > Len(bytes) \div 2 THEN bytes
  ELSE reverseBytesFrom([bytes EXCEPT ![i] = bytes[Len(bytes) - i + 1],
                                      ![Len(bytes) - i + 1] = bytes[i]], i + 1)

reverseBytes(bytes) == reverseBytesFrom(bytes, 1)

\* The four bytes of a uint32 in the memory of the host, and the int32 that
\* four bytes of memory are
HostBytes32(n) ==
  LET le == << n % 256, (n \div 256) % 256, (n \div 65536) % 256, (n \div 16777216) % 256 >>
  IN  IF machine_is_little_endian THEN le ELSE reverseBytes(le)

HostInt32(bytes) ==
  LET le == IF machine_is_little_endian THEN bytes ELSE reverseBytes(bytes)
      top == IF le[4] >= 128 THEN le[4] - 256 ELSE le[4]
  IN  le[1] + 256 * le[2] + 65536 * le[3] + 16777216 * top

\* "msg->is_bigendian != !machine_is_little_endian"
must_reverse_bytes == (is_bigendian # ~machine_is_little_endian)

\* The coordinate fields of a message are packed in the order x, y, z; a
\* field that is absent or of no known datatype takes no room
FieldOffsets(fields) ==
  LET room(c) == IF BytesOfDatatype(fields[c]) < 0 THEN 0 ELSE BytesOfDatatype(fields[c])
  IN  [x |-> 0, y |-> room("x"), z |-> room("x") + room("y")]

\* PC2_message_* as getOffsetsAndBytes sets them before its loop
Unresolved ==
  [x |-> [offset |-> 0 - 1, bytes |-> 0 - 1],
   y |-> [offset |-> 0 - 1, bytes |-> 0 - 1],
   z |-> [offset |-> 0 - 1, bytes |-> 0 - 1]]

\* Bank::getOffsetsAndBytes, "Read offset": msg->fields[i].offset is copied
\* to four bytes, which are reversed if must_reverse_bytes
ReadOffset(offset) ==
  IF must_reverse_bytes
  THEN HostInt32(reverseBytes(HostBytes32(offset)))
  ELSE offset

\* Bank::getOffsetsAndBytes, the loop over msg->fields: it returns at the
\* first coordinate field of an unknown datatype
RECURSIVE ResolveFrom(_, _, _)
ResolveFrom(fields, names, pc2) ==
  IF names = << >> THEN [returned |-> FALSE, pc2 |-> pc2]
  ELSE LET c == Head(names)
           found == [pc2 EXCEPT ![c] = [offset |-> ReadOffset(FieldOffsets(fields)[c]),
                                        bytes |-> BytesOfDatatype(fields[c])]]
       IN  IF fields[c] = 0 THEN ResolveFrom(fields, Tail(names), pc2)
           ELSE IF BytesOfDatatype(fields[c]) < 0 THEN [returned |-> TRUE, pc2 |-> found]
           ELSE ResolveFrom(fields, Tail(names), found)

ResolveFields(fields) == ResolveFrom(fields, << "x", "y", "z" >>, Unresolved)

\* Variant for C12: every catalog resolves
getOffsetsAndBytesAlwaysResolved(fields) == 0

\* Bank::getOffsetsAndBytes: 0 on success, -1 otherwise (code 0: no field
\* of that name in the message)
getOffsetsAndBytes(fields) ==
  LET res == ResolveFields(fields)
  IN  IF /\ ~res.returned
         /\ \A c \in {"x", "y", "z"} : 0 <= res.pc2[c].offset /\ 0 <= res.pc2[c].bytes
      THEN 0 ELSE 0 - 1

\* What the locals x, y, z of putPoints can hold where readPoint has not
\* set them, as a decoded point: one inside and one outside the volume
GarbagePoints ==
  { [range |-> 100, index_min |-> 1, index_max |-> 2, z |-> 50],
    [range |-> 0, index_min |-> 0, index_max |-> 0, z |-> 0] }

\* Bank::readPoint, which of x, y, z do not get the value sent: readPoint
\* returns at the first coordinate whose width is neither sizeof(float) nor
\* sizeof(double), and a coordinate whose offset lies beyond the point is
\* copied from memory that is not the point's
NotRead(pc2) ==
  LET narrow(c) == pc2[c].bytes \notin {4, 8}
      point_step == pc2.x.bytes + pc2.y.bytes + pc2.z.bytes
      beyond(c) == pc2[c].offset + pc2[c].bytes > point_step
  IN  [x |-> narrow("x") \/ beyond("x"),
       y |-> narrow("x") \/ narrow("y") \/ beyond("y"),
       z |-> narrow("x") \/ narrow("y") \/ narrow("z") \/ beyond("z")]

UninitializedPoints(pc2) ==
  IF NotRead(pc2).x \/ NotRead(pc2).y \/ NotRead(pc2).z
  THEN GarbagePoints
  ELSE { CHOOSE g \in GarbagePoints : TRUE }

\* The range and the bins of a point come from x, y and z, its z from z
DecodedPoint(p, not_read, garbage) ==
  IF not_read.x \/ not_read.y
  THEN [garbage EXCEPT !.z = IF not_read.z THEN garbage.z ELSE p.z]
  ELSE IF not_read.z
  THEN [p EXCEPT !.z = garbage.z, !.range = garbage.range]
  ELSE p

\* The points of a message as putPoints gets them from readPoint
DecodedPoints(points, pc2, garbage) ==
  LET not_read == NotRead(pc2)
  IN  IF not_read.x \/ not_read.y \/ not_read.z
      THEN [k \in 1..Len(points) |-> DecodedPoint(points[k], not_read, garbage)]
      ELSE points

\* The bytes of a sequence in the opposite order
Mirror(bytes) == [i \in 1..Len(bytes) |-> bytes[Len(bytes) - i + 1]]

\* The coordinates the points of the byte-level messages are made of, in
\* centimetres (1.5, -2.25 and 0.5), and their IEEE-754 bytes, the most
\* significant first
CoordinateValues == {150, 0 - 225, 50}

Float32Bytes(v) ==
  IF v = 150 THEN << 63, 192, 0, 0 >>
  ELSE IF v = 0 - 225 THEN << 192, 16, 0, 0 >>
  ELSE << 63, 0, 0, 0 >>

Float64Bytes(v) ==
  IF v = 150 THEN << 63, 248, 0, 0, 0, 0, 0, 0 >>
  ELSE IF v = 0 - 225 THEN << 192, 2, 0, 0, 0, 0, 0, 0 >>
  ELSE << 63, 224, 0, 0, 0, 0, 0, 0 >>

IEEEBytes(v, nr_bytes) == IF nr_bytes = 4 THEN Float32Bytes(v) ELSE Float64Bytes(v)

\* A coordinate as the sensor writes it to msg->data
Serialized(v, nr_bytes, bigendian) ==
  IF bigendian THEN IEEEBytes(v, nr_bytes) ELSE Mirror(IEEEBytes(v, nr_bytes))

\* msg->data of a message of one point, with its fields packed as x, y, z
PointData(sent, fields, bigendian) ==
  Serialized(sent.x, BytesOfDatatype(fields.x), bigendian)
    \o Serialized(sent.y, BytesOfDatatype(fields.y), bigendian)
    \o Serialized(sent.z, BytesOfDatatype(fields.z), bigendian)

\* Bank::readPoint, "memcpy(&xf, x_array, ...); *x = xf" and "memcpy(x,
\* x_array, ...)": the float or double whose bytes in the memory of the
\* host are the given ones, on the grid.  Bytes with a sign and an exponent
\* of zeros are a number below 1e-38, bytes of ones are a NaN; the messages
\* of the model hold no other bytes.
Interpret(bytes) ==
  LET be == IF machine_is_little_endian THEN Mirror(bytes) ELSE bytes
  IN  IF \E v \in CoordinateValues : IEEEBytes(v, Len(bytes)) = be
      THEN CHOOSE v \in CoordinateValues : IEEEBytes(v, Len(bytes)) = be
      ELSE IF be[1] \in {0, 128} THEN 0
      ELSE NaN

\* What lies in memory beyond msg->data
GarbageBytes == { [i \in 1..8 |-> 0], [i \in 1..8 |-> 255] }

\* Bank::readPoint, "memcpy(x_array, start_of_point + PC2_message_x_offset,
\* PC2_message_x_bytes)" and the reversal of the copy
CoordinateArray(start_of_point, reverse, field, beyond) ==
  LET copy == IF field.offset + field.bytes <= Len(start_of_point)
              THEN SubSeq(start_of_point, field.offset + 1, field.offset + field.bytes)
              ELSE SubSeq(beyond, 1, field.bytes)
  IN  IF reverse THEN reverseBytes(copy) ELSE copy

\* Bank::readPoint: x, y and z after the call; uninit is what they held
\* before it
readPoint(start_of_point, reverse, pc2, beyond, uninit) ==
  LET wide(c) == pc2[c].bytes \in {4, 8}
      value(c) == Interpret(CoordinateArray(start_of_point, reverse, pc2[c], beyond))
  IN  [x |-> IF wide("x") THEN value("x") ELSE uninit.x,
       y |-> IF wide("x") /\ wide("y") THEN value("y") ELSE uninit.y,
       z |-> IF wide("x") /\ wide("y") /\ wide("z") THEN value("z") ELSE uninit.z]

\* BankArgument::check and check_PC2: the conditions of the ROS_ASSERT_MSGs
check(arg) ==
  /\ 0 <= arg.ema_alpha /\ arg.ema_alpha <= AlphaDen
  /\ 2 <= arg.nr_scans_in_bank
  /\ 0 < PointsPerScan
  /\ 0 <= object_threshold_edge_max_delta_range
  /\ 1 <= arg.object_threshold_min_nr_points
  /\ 0 <= object_threshold_max_distance
  /\ 0 <= object_threshold_min_speed
  /\ 0 <= object_threshold_max_delta_width_in_points
  /\ 0 <= object_threshold_min_confidence /\ object_threshold_min_confidence <= 100
  /\ arg.map_frame # ""

\* Bank::initBank, "bank_argument.check()": a failed assertion of a build
\* that has assertions
AssertionFails == ROS_ASSERT_ENABLED /\ ~bank_is_initialized /\ ~check(bank_argument)

Aborted == [op |-> "abort", ret |-> 0 - 1, added |-> 0, raw |-> NoProfile]

(***************************************************************************)
(* The initial state: a constructed Bank and a BankArgument handed to it.  *)
(* The slots are not allocated before initBank.  The indices and moa_seq   *)
(* are not set by the constructor and not read before initBank sets them.  *)
(***************************************************************************)
NominalEnv == [failing |-> "none", time |-> "old", failure |-> "ok", motion |-> 0, scorer |-> 80]

\* The transform provider either answers every lookup, or fails one of the
\* six lookups, by timeout (waitForTransform returns false) or by exception;
\* motion is how far the sensor moved in the map and fixed frames between
\* the old and the new time; scorer is what calculateConfidence returns.
ScorerResults == {0 - 30, 50, 80, 170}
Motions == {0, 200}
Envs ==
  { [failing |-> "none", time |-> "old", failure |-> "ok", motion |-> m, scorer |-> c] :
      m \in Motions, c \in ScorerResults }
  \cup
  [ failing : {"map", "fixed", "base"}, time : {"old", "new"},
    failure : {"timeout", "exception"}, motion : Motions, scorer : ScorerResults ]

InitBankOn(sensors, arguments, envs, hosts, orders, builds) ==
  /\ sensor \in sensors
  /\ bank_argument \in arguments
  /\ machine_is_little_endian \in hosts
  /\ is_bigendian \in orders
  /\ ROS_ASSERT_ENABLED \in builds
  /\ PC2_message = Unresolved
  /\ bank_is_initialized = FALSE
  /\ bank_is_filled = FALSE
  /\ bank_index_put = 0 - 1
  /\ bank_index_newest = 0 - 1
  /\ bank_ranges_ema = <<>>
  /\ bank_stamp = <<>>
  /\ moa_seq = 0
  /\ env \in envs
  /\ now = 0
  /\ writes = 0
  /\ last = [op |-> "Bank", ret |-> 0, added |-> 0, raw |-> NoProfile]
  /\ cycle = NoCycle

\* A valid configuration, a little-endian host, a sensor that sends its data
\* in the byte order of the host, a build with assertions
InitBank(sensors, alphas, depths, minpoints, envs) ==
  InitBankOn(sensors,
             [ ema_alpha : alphas,
               nr_scans_in_bank : depths,
               object_threshold_min_nr_points : minpoints,
               map_frame : {"map"},
               range_min : {0}, range_max : {0} ],
             envs, {TRUE}, {FALSE}, {TRUE})

Init == InitBank({"LaserScan", "PointCloud2"}, AlphaNums, Depths, MinNrPoints, {NominalEnv})

\* Bank::initBank: the slots as allocated; a slot is written before
\* findAndReportMovingObjects or an EMA reads it
AllocatedRanges(depth) == [s \in 0..(depth - 1) |-> NoProfile]
AllocatedStamps(depth) == [s \in 0..(depth - 1) |-> 0]

(***************************************************************************)
(* Bank::init(BankArgument, LaserScan): initBank, then addFirstMessage.    *)
(* The interpreter calls init until it has stored the first message.       *)
(***************************************************************************)
InitLaserScan(ranges) ==
  /\ Running
  /\ sensor = "LaserScan"
  /\ writes = 0
  /\ now < MaxTime
  /\ now' = now + 1
  /\ cycle' = NoCycle
  /\ UNCHANGED << sensor, env, hostVars, PC2_message >>
  /\ IF AssertionFails
     THEN /\ last' = Aborted
          /\ UNCHANGED << bank_argument, bankVars, moa_seq, writes >>
     ELSE LET depth == bank_argument.nr_scans_in_bank
              rs == IF bank_is_initialized THEN bank_ranges_ema ELSE AllocatedRanges(depth)
              st == IF bank_is_initialized THEN bank_stamp ELSE AllocatedStamps(depth)
          IN  /\ bank_argument' =
                    IF bank_is_initialized THEN bank_argument
                    ELSE [bank_argument EXCEPT !.range_min = LaserScanRangeMin,
                                               !.range_max = LaserScanRangeMax]
              /\ moa_seq' = IF bank_is_initialized THEN moa_seq ELSE 0
              /\ bank_is_initialized' = TRUE
              /\ bank_stamp' = [st EXCEPT ![0] = now + 1]
              /\ bank_ranges_ema' = [rs EXCEPT ![0] = ranges]
              /\ bank_index_put' = initIndex.put
              /\ bank_index_newest' = initIndex.newest
              /\ bank_is_filled' = FALSE
              /\ writes' = 1
              /\ last' = [op |-> "init", ret |-> 0, added |-> PointsPerScan, raw |-> ranges]

(***************************************************************************)
(* Bank::addMessage(LaserScan)                                             *)
(***************************************************************************)
AddLaserScan(ranges) ==
  /\ Running
  /\ sensor = "LaserScan"
  /\ bank_is_initialized
  /\ now < MaxTime
  /\ now' = now + 1
  /\ bank_stamp' = [bank_stamp EXCEPT ![bank_index_put] = now + 1]
  /\ bank_ranges_ema' =
       [bank_ranges_ema EXCEPT ![bank_index_put] =
          emaLaserScan(bank_argument.ema_alpha, ranges, bank_ranges_ema[bank_index_newest])]
  /\ LET adv == advanceIndex(bank_index_put, bank_index_newest, bank_argument.nr_scans_in_bank)
     IN  /\ bank_index_put' = adv.put
         /\ bank_index_newest' = adv.newest
         /\ bank_is_filled' = (bank_is_filled \/ FilledByAdvance(adv.put, adv.newest))
  /\ writes' = writes + 1
  /\ last' = [op |-> "addMessage", ret |-> 0, added |-> PointsPerScan, raw |-> ranges]
  /\ cycle' = NoCycle
  /\ UNCHANGED << sensor, bank_argument, bank_is_initialized, moa_seq, env, hostVars, PC2_message >>

(***************************************************************************)
(* Bank::init(BankArgument, PointCloud2): getOffsetsAndBytes, initBank,    *)
(* addFirstMessage.                                                        *)
(***************************************************************************)
InitPointCloud2(msg) ==
  /\ Running
  /\ sensor = "PointCloud2"
  /\ writes = 0
  /\ now < MaxClouds
  /\ now' = now + 1
  /\ cycle' = NoCycle
  /\ UNCHANGED << sensor, env, hostVars >>
  /\ PC2_message' = ResolveFields(msg.fields).pc2
  /\ IF getOffsetsAndBytes(msg.fields) # 0
     THEN /\ last' = [op |-> "init", ret |-> 0 - 1, added |-> 0, raw |-> NoProfile,
                             fields |-> msg.fields]
          /\ UNCHANGED << bank_argument, bankVars, moa_seq, writes >>
     ELSE IF AssertionFails
     THEN /\ last' = Aborted
          /\ UNCHANGED << bank_argument, bankVars, moa_seq, writes >>
     ELSE \E garbage \in UninitializedPoints(PC2_message'), nan_cast \in NaNCastsOf(msg.points) :
          LET depth == bank_argument.nr_scans_in_bank
              rs == IF bank_is_initialized THEN bank_ranges_ema ELSE AllocatedRanges(depth)
              st == IF bank_is_initialized THEN bank_stamp ELSE AllocatedStamps(depth)
              points == DecodedPoints(msg.points, PC2_message', garbage)
              res == putPoints(resetPutPoints, points, 1, 0, nan_cast)
          IN  /\ bank_argument' =
                    IF bank_is_initialized THEN bank_argument
                    ELSE [bank_argument EXCEPT !.range_min = PointCloud2RangeMin,
                                               !.range_max = object_threshold_max_distance]
              /\ moa_seq' = IF bank_is_initialized THEN moa_seq ELSE 0
              /\ bank_is_initialized' = TRUE
              /\ bank_stamp' = [st EXCEPT ![0] = now + 1]
              /\ bank_ranges_ema' = [rs EXCEPT ![0] = res.bank_put]
              /\ IF res.added_points = 0
                 THEN /\ bank_index_put' = 0
                      /\ bank_index_newest' =
                           IF bank_is_initialized THEN bank_index_newest ELSE 0 - 1
                      /\ UNCHANGED << bank_is_filled, writes >>
                      /\ last' = [op |-> "init", ret |-> 0 - 1, added |-> 0, raw |-> res.bank_put,
                             fields |-> msg.fields]
                 ELSE /\ bank_index_put' = initIndex.put
                      /\ bank_index_newest' = initIndex.newest
                      /\ bank_is_filled' = FALSE
                      /\ writes' = 1
                      /\ last' = [op |-> "init", ret |-> 0, added |-> res.added_points, raw |-> res.bank_put,
                             fields |-> msg.fields]

(***************************************************************************)
(* Bank::addMessage(PointCloud2).  With bank_index_newest = -1 (after an   *)
(* init whose message gave no point) emaPutMessage reads outside the bank. *)
(***************************************************************************)
\* What bank_ranges_ema[bank_index_newest] yields when emaPutMessage reads it
PreviousSlot ==
  IF bank_index_newest \in Slots
  THEN { bank_ranges_ema[bank_index_newest] }
  ELSE GarbageProfiles

\* The fields of the message are not looked at again: the points are decoded
\* with the offsets resolved by init
AddPointCloud2(points, bank_prev) ==
  /\ Running
  /\ sensor = "PointCloud2"
  /\ bank_is_initialized
  /\ now < MaxClouds
  /\ now' = now + 1
  /\ cycle' = NoCycle
  /\ UNCHANGED << sensor, bank_argument, bank_is_initialized, moa_seq, env, hostVars, PC2_message >>
  /\ bank_stamp' = [bank_stamp EXCEPT ![bank_index_put] = now + 1]
  /\ \E garbage \in UninitializedPoints(PC2_message), nan_cast \in NaNCastsOf(points) :
     LET res == putPoints(resetPutPoints, DecodedPoints(points, PC2_message, garbage), 1, 0, nan_cast)
     IN  IF res.added_points = 0
         THEN /\ bank_ranges_ema' = [bank_ranges_ema EXCEPT ![bank_index_put] = res.bank_put]
              /\ last' = [op |-> "addMessage", ret |-> 0 - 1, added |-> 0, raw |-> res.bank_put]
              /\ UNCHANGED << bank_index_put, bank_index_newest, bank_is_filled, writes >>
         ELSE LET adv == advanceIndex(bank_index_put, bank_index_newest,
                                      bank_argument.nr_scans_in_bank)
              IN  /\ bank_ranges_ema' =
                        [bank_ranges_ema EXCEPT ![bank_index_put] =
                           emaPutMessage(bank_argument.ema_alpha, res.bank_put, bank_prev)]
                  /\ bank_index_put' = adv.put
                  /\ bank_index_newest' = adv.newest
                  /\ bank_is_filled' = (bank_is_filled \/ FilledByAdvance(adv.put, adv.newest))
                  /\ writes' = writes + 1
                  /\ last' = [op |-> "addMessage", ret |-> 0, added |-> res.added_points, raw |-> res.bank_put]

(***************************************************************************)
(* findAndReportMovingObjects: segmentation of the newest slot.            *)
(***************************************************************************)
\* "Is i out-of-range?"
OutOfRange(range_i) ==
  FLt(range_i, bank_argument.range_min) \/ FLt(bank_argument.range_max, range_i)

\* The range check that makes j part of the current object
PartOfObject(prev_range, range_j) ==
  /\ FLe(bank_argument.range_min, range_j)
  /\ FLe(range_j, bank_argument.range_max)
  /\ FLe(FAbsDiff(prev_range, range_j), object_threshold_edge_max_delta_range)

\* The loop over j counting the valid scans of the object starting at i
RECURSIVE CountValidScans(_, _, _)
CountValidScans(ranges, j, obj) ==
  IF j >= PointsPerScan THEN obj
  ELSE IF PartOfObject(obj.prev_range, ranges[j])
       THEN CountValidScans(ranges, j + 1,
              [nr_object_points |-> obj.nr_object_points + 1,
               object_range_sum |-> FAdd(obj.object_range_sum, ranges[j]),
               prev_range |-> ranges[j]])
       ELSE obj

\* Variant for C7: objects one point short of the minimum pass
ValidObjectOnePointShort(nr_object_points) ==
  bank_argument.object_threshold_min_nr_points <= nr_object_points + 1

\* "Threshold check": is the object handed to the tracker?
ValidObject(nr_object_points) ==
  bank_argument.object_threshold_min_nr_points <= nr_object_points

\* Variant for C6: the scan resumes one index too far
ScanIndexSkippingOne(i, nr_object_points) == i + nr_object_points + 1

\* "Update i etc": where the scan resumes after the object starting at i
NextScanIndex(i, nr_object_points) == i + nr_object_points

(***************************************************************************)
(* getOldIndices: the recursive tracking of one object through the bank.   *)
(***************************************************************************)
\* The range limits findAndReportMovingObjects hands to getOldIndices
TrackRangeMin == bank_argument.range_min
TrackRangeMax ==
  IF bank_argument.range_max < object_threshold_max_distance
  THEN bank_argument.range_max ELSE object_threshold_max_distance

\* Variant for C3: one miss allowed
ToleranceOfOneMiss == 0 + 1

\* "threshold for consecutive misses; 0 -> allow no misses"
MissTolerance == 0

\* The range check of both search loops
SameObject(range_min, range_max, prev_range, range) ==
  /\ FLe(range_min, range)
  /\ FLe(range, range_max)
  /\ FLe(FAbsDiff(range, prev_range), object_threshold_edge_max_delta_range)

\* "Search lower index side", from index i downwards
RECURSIVE SearchLower(_, _, _, _, _)
SearchLower(ranges, range_min, range_max, i, acc) ==
  IF i < 0 THEN acc
  ELSE IF SameObject(range_min, range_max, acc.prev_range, ranges[i])
       THEN SearchLower(ranges, range_min, range_max, i - 1,
              [end |-> i, prev_range |-> ranges[i],
               range_sum |-> FAdd(acc.range_sum, ranges[i])])
       ELSE acc

\* "Search higher index side", from index i upwards
RECURSIVE SearchHigher(_, _, _, _, _)
SearchHigher(ranges, range_min, range_max, i, acc) ==
  IF i >= PointsPerScan THEN acc
  ELSE IF SameObject(range_min, range_max, acc.prev_range, ranges[i])
       THEN SearchHigher(ranges, range_min, range_max, i + 1,
              [end |-> i, prev_range |-> ranges[i],
               range_sum |-> FAdd(acc.range_sum, ranges[i])])
       ELSE acc

\* abs(width_in_points - object_width_in_points): the operands are unsigned
\* int.  A negative difference wraps to 2^32 - (object_width - width), which
\* abs(int) takes as the int -(object_width - width).
AbsDeltaWidth(width_in_points, object_width_in_points) ==
  IF width_in_points >= object_width_in_points
  THEN width_in_points - object_width_in_points
  ELSE LET as_int == 0 - (object_width_in_points - width_in_points)
       IN  0 - as_int

\* tracking_max_delta_distance < fabs(range_sum / width - range_sum_old / object_width)
MeanRangeDeltaExceeded(range_sum, width_in_points, range_sum_old, object_width_in_points) ==
  /\ ~IsNaN(range_sum)
  /\ ~IsNaN(range_sum_old)
  /\ LET a == range_sum * object_width_in_points
         b == range_sum_old * width_in_points
         diff == IF a < b THEN b - a ELSE a - b
     IN  object_threshold_bank_tracking_max_delta_distance
           * width_in_points * object_width_in_points < diff

\* "Did we find a valid object?": TRUE when it is a miss
NoValidObject(range_sum, width_in_points, range_sum_old, object_width_in_points) ==
  \/ width_in_points < bank_argument.object_threshold_min_nr_points
  \/ object_threshold_max_delta_width_in_points
       < AbsDeltaWidth(width_in_points, object_width_in_points)
  \/ MeanRangeDeltaExceeded(range_sum, width_in_points, range_sum_old, object_width_in_points)

\* Variant for C18: no wrap around
OlderLevelWithoutWrap(current_level) ==
  IF current_level - 1 < 0 THEN 0 ELSE current_level - 1

\* The level searched after current_level ("wrap around")
OlderLevel(current_level) ==
  IF current_level - 1 < 0 THEN bank_argument.nr_scans_in_bank - 1 ELSE current_level - 1

\* What getOldIndices writes to its output parameters to signal "not found"
NotFound(walk) ==
  [index_min_old |-> 0 - 1, index_mean_old |-> 0 - 1, index_max_old |-> 0 - 1,
   range_sum_old |-> 0, walk |-> walk]

\* old holds the output parameters (and, in walk, the segments grown so far)
RECURSIVE getOldIndices(_, _, _, _, _, _, _, _, _)
getOldIndices(range_min, range_max, object_width_in_points, current_level, levels_searched, index_mean, consecutive_failures, threshold, old) ==
  IF levels_searched = bank_argument.nr_scans_in_bank THEN old
  ELSE
    LET ranges == bank_ranges_ema[current_level]
        start == ranges[index_mean]
    IN
    IF FLt(start, range_min) \/ FLt(range_max, start)
    THEN NotFound(Append(old.walk,
           [level |-> current_level, index_mean |-> index_mean, in_range |-> FALSE,
            left |-> index_mean, right |-> index_mean, range_sum |-> start,
            consecutive_failures |-> consecutive_failures]))
    ELSE
      LET lo == SearchLower(ranges, range_min, range_max, index_mean - 1,
                            [end |-> index_mean, prev_range |-> start, range_sum |-> start])
          hi == SearchHigher(ranges, range_min, range_max, index_mean + 1,
                             [end |-> index_mean, prev_range |-> start,
                              range_sum |-> lo.range_sum])
          left == lo.end
          right == hi.end
          range_sum == hi.range_sum
          width_in_points == right - left + 1
          miss == NoValidObject(range_sum, width_in_points,
                                old.range_sum_old, object_width_in_points)
          misses == IF miss THEN consecutive_failures + 1 ELSE 0
          walk == Append(old.walk,
                    [level |-> current_level, index_mean |-> index_mean, in_range |-> TRUE,
                     left |-> left, right |-> right, range_sum |-> range_sum,
                     consecutive_failures |-> consecutive_failures])
      IN
      IF miss /\ threshold < misses
      THEN NotFound(walk)
      ELSE getOldIndices(range_min, range_max, width_in_points,
                         OlderLevel(current_level), levels_searched + 1,
                         (right + left) \div 2, misses, threshold,
                         [index_min_old |-> left,
                          index_mean_old |-> (right + left) \div 2,
                          index_max_old |-> right,
                          range_sum_old |-> range_sum,
                          walk |-> walk])

\* Variant for C28: the search starts in the newest slot
TrackObjectFromNewest(index_min, index_max, object_range_sum) ==
  getOldIndices(TrackRangeMin, TrackRangeMax, index_max - index_min + 1,
                bank_index_newest, 1, (index_min + index_max) \div 2,
                0, MissTolerance,
                [index_min_old |-> 0 - 1, index_mean_old |-> 0 - 1, index_max_old |-> 0 - 1,
                 range_sum_old |-> object_range_sum, walk |-> <<>>])

\* The call of getOldIndices for the object [index_min, index_max] of the newest slot
TrackObject(index_min, index_max, object_range_sum) ==
  getOldIndices(TrackRangeMin, TrackRangeMax, index_max - index_min + 1,
                OlderLevel(bank_index_newest), 1, (index_min + index_max) \div 2,
                0, MissTolerance,
                [index_min_old |-> 0 - 1, index_mean_old |-> 0 - 1, index_max_old |-> 0 - 1,
                 range_sum_old |-> object_range_sum, walk |-> <<>>])

\* "Could we track object?"
Tracked(old) == 0 <= old.index_mean_old

(***************************************************************************)
(* findAndReportMovingObjects: kinematics and confidence of a tracked      *)
(* object.  The sensor looks at -45..45 degrees with an angle increment of *)
(* 30 degrees; CosTable and SinTable hold 1000 * cosf and 1000 * sinf of   *)
(* the angles -45 + 15 * h degrees.                                        *)
(***************************************************************************)
CosTable == <<707, 866, 966, 1000, 966, 866, 707>>
SinTable == <<0 - 707, 0 - 500, 0 - 259, 0, 259, 500, 707>>

\* (distance * cosf(angle), distance * sinf(angle)) for distance =
\* range_sum / nr_points and angle = angle_min + h * angle_increment / 2
PolarToXY(range_sum, nr_points, h) ==
  IF IsNaN(range_sum) THEN << NaN, NaN >>
  ELSE << FDivRound(range_sum * CosTable[h + 1], nr_points * 100),
          FDivRound(range_sum * SinTable[h + 1], nr_points * 100) >>

FSub(a, b) == IF IsNaN(a) \/ IsNaN(b) THEN NaN ELSE a - b
VAdd(p, q) == << FAdd(p[1], q[1]), FAdd(p[2], q[2]) >>
VSub(p, q) == << FSub(p[1], q[1]), FSub(p[2], q[2]) >>

\* mo.position: at the mean of angle_begin and angle_end
NewPosition(index_min, index_max, object_range_sum) ==
  PolarToXY(object_range_sum, index_max - index_min + 1, index_min + index_max)

\* (x_old, y_old): distance_old at the angle of index_mean_old
OldPosition(old) ==
  PolarToXY(old.range_sum_old, old.index_max_old - old.index_min_old + 1,
            2 * old.index_mean_old)

Frames == {"map", "fixed", "base"}
Times == {"old", "new"}

\* The transform provider: what waitForTransform / lookupTransform do for
\* one frame at one of the two times
LookupOutcome(frame, time) ==
  IF env.failing = frame /\ env.time = time THEN env.failure ELSE "ok"

\* The transform (a translation) the provider has for a frame at a time
ProvidedTransform(frame, time) ==
  IF time = "new" /\ frame \in {"map", "fixed"} THEN << env.motion, 0 >> ELSE << 0, 0 >>

\* What a tf::StampedTransform that was never assigned can hold
GarbageTransforms == { << 0, 0 >>, << 5000, 5000 >> }

\* transform_<time>_<frame>_success after the try block: only the catch
\* clause clears it
TransformSuccess(frame, time) == LookupOutcome(frame, time) # "exception"

\* transform_<frame>_<time> after the try block
TransformAfterLookup(frame, time, garbage) ==
  IF LookupOutcome(frame, time) = "ok" THEN ProvidedTransform(frame, time) ELSE garbage

\* old_point_in_<frame> and new_point_in_<frame>
PointsInFrame(frame, old_point, new_point, garbage) ==
  IF TransformSuccess(frame, "old") /\ TransformSuccess(frame, "new")
  THEN [old |-> VAdd(TransformAfterLookup(frame, "old", garbage), old_point),
        new |-> VAdd(TransformAfterLookup(frame, "new", garbage), new_point)]
  ELSE [old |-> old_point, new |-> new_point]

\* Variant for C8: no speed threshold
SpeedAlwaysReached(old_point, new_point, dt) == TRUE

\* object_threshold_min_speed <= sqrt(vx * vx + vy * vy), v = (new - old) / dt
SpeedReached(old_point, new_point, dt) ==
  LET d == VSub(new_point, old_point)
  IN  /\ ~IsNaN(d[1])
      /\ ~IsNaN(d[2])
      /\ IF dt = 0
         THEN d[1] # 0 \/ d[2] # 0
         ELSE object_threshold_min_speed * object_threshold_min_speed * dt * dt
                <= d[1] * d[1] + d[2] * d[2]

\* Variant for C9: the scorer's result taken as it is
UnboundConfidence(confidence) == confidence

\* "Bound the value to [0,1]"
BoundConfidence(confidence) ==
  LET low == IF FLt(confidence, 0) THEN 0 ELSE confidence
  IN  IF FLt(low, 100) THEN low ELSE 100

\* "Are we confident enough to report this object?"
ConfidentEnough(confidence) == FLe(object_threshold_min_confidence, confidence)

NoKinematics ==
  [success |-> [f \in Frames |-> [t \in Times |-> TRUE]],
   sensor_points |-> [old |-> << 0, 0 >>, new |-> << 0, 0 >>],
   points |-> [f \in Frames |-> [old |-> << 0, 0 >>, new |-> << 0, 0 >>]],
   dt |-> 0, moving |-> FALSE, scored |-> FALSE, scorer_flags |-> <<>>,
   scorer_result |-> 0, confidence |-> 0, reported |-> FALSE, lookups |-> <<>>]

\* The waitForTransform calls of one tracked object, in the order they are
\* made: target frame and the time asked for
ObjectLookups ==
  << [frame |-> "map", stamp |-> bank_stamp[bank_index_put]],
     [frame |-> "map", stamp |-> bank_stamp[bank_index_newest]],
     [frame |-> "fixed", stamp |-> bank_stamp[bank_index_put]],
     [frame |-> "fixed", stamp |-> bank_stamp[bank_index_newest]],
     [frame |-> "base", stamp |-> bank_stamp[bank_index_put]],
     [frame |-> "base", stamp |-> bank_stamp[bank_index_newest]] >>

\* The body of "Could we track object? YES!" for one object
Kinematics(index_min, index_max, object_range_sum, old, garbage) ==
  LET new_point == NewPosition(index_min, index_max, object_range_sum)
      old_point == OldPosition(old)
      points == [f \in Frames |-> PointsInFrame(f, old_point, new_point, garbage)]
      dt == bank_stamp[bank_index_newest] - bank_stamp[bank_index_put]
      moving == \/ SpeedReached(old_point, new_point, dt)
                \/ \E f \in Frames : SpeedReached(points[f].old, points[f].new, dt)
      confidence == BoundConfidence(env.scorer)
  IN  [success |-> [f \in Frames |-> [t \in Times |-> TransformSuccess(f, t)]],
       sensor_points |-> [old |-> old_point, new |-> new_point],
       points |-> points,
       dt |-> dt,
       moving |-> moving,
       scored |-> moving,
       scorer_flags |-> IF moving
                        THEN << TransformSuccess("map", "old"), TransformSuccess("map", "new"),
                                TransformSuccess("fixed", "old"), TransformSuccess("fixed", "new"),
                                TransformSuccess("base", "old"), TransformSuccess("base", "new") >>
                        ELSE <<>>,
       scorer_result |-> IF moving THEN env.scorer ELSE 0,
       confidence |-> IF moving THEN confidence ELSE 0,
       reported |-> moving /\ ConfidentEnough(confidence),
       lookups |-> ObjectLookups]

\* What the loop body does with the object of nr_object_points points found at i
EvaluateObject(i, obj, nr_objects_found, garbage) ==
  LET index_min == i
      index_max == i + obj.nr_object_points - 1
      valid == ValidObject(obj.nr_object_points)
      old == IF valid THEN TrackObject(index_min, index_max, obj.object_range_sum)
             ELSE NotFound(<<>>)
      tracked == valid /\ Tracked(old)
  IN  [index_min |-> index_min,
       index_max |-> index_max,
       nr_object_points |-> obj.nr_object_points,
       object_range_sum |-> obj.object_range_sum,
       valid |-> valid,
       seq |-> IF valid THEN nr_objects_found + 1 ELSE nr_objects_found,
       old |-> old,
       tracked |-> tracked,
       kin |-> IF tracked
               THEN Kinematics(index_min, index_max, obj.object_range_sum, old, garbage)
               ELSE NoKinematics]

\* Variant for C24: the scan ends at the first object that is not reported
RECURSIVE FindObjectsUntilDropped(_, _, _, _)
FindObjectsUntilDropped(i, nr_objects_found, found, garbage) ==
  IF i >= PointsPerScan THEN found
  ELSE
    LET ranges == bank_ranges_ema[bank_index_newest]
        range_i == ranges[i]
    IN
    IF OutOfRange(range_i)
    THEN FindObjectsUntilDropped(i + 1, nr_objects_found, found, garbage)
    ELSE
      LET obj == CountValidScans(ranges, i + 1,
                   [nr_object_points |-> 1, object_range_sum |-> range_i,
                    prev_range |-> range_i])
          c == EvaluateObject(i, obj, nr_objects_found, garbage)
      IN  IF c.kin.reported
          THEN FindObjectsUntilDropped(NextScanIndex(i, obj.nr_object_points), c.seq,
                                       Append(found, c), garbage)
          ELSE Append(found, c)

\* The while loop over i: the objects found from index i on, appended to found
RECURSIVE FindObjects(_, _, _, _)
FindObjects(i, nr_objects_found, found, garbage) ==
  IF i >= PointsPerScan THEN found
  ELSE
    LET ranges == bank_ranges_ema[bank_index_newest]
        range_i == ranges[i]
    IN
    IF OutOfRange(range_i)
    THEN FindObjects(i + 1, nr_objects_found, found, garbage)
    ELSE
      LET obj == CountValidScans(ranges, i + 1,
                   [nr_object_points |-> 1, object_range_sum |-> range_i,
                    prev_range |-> range_i])
          c == EvaluateObject(i, obj, nr_objects_found, garbage)
      IN  FindObjects(NextScanIndex(i, obj.nr_object_points), c.seq,
                      Append(found, c), garbage)

\* moa.objects: the objects pushed back, in order
RECURSIVE PushedBack(_, _)
PushedBack(found, k) ==
  IF k > Len(found) THEN <<>>
  ELSE LET c == found[k]
           rest == PushedBack(found, k + 1)
       IN  IF c.kin.reported
           THEN << [seq |-> c.seq, index_min |-> c.index_min, index_max |-> c.index_max,
                    position |-> c.kin.sensor_points.new,
                    confidence |-> c.kin.confidence] >> \o rest
           ELSE rest

(***************************************************************************)
(* Bank::findAndReportMovingObjects                                        *)
(***************************************************************************)
findAndReportMovingObjects(garbage) ==
  /\ Running
  /\ bank_is_initialized
  /\ moa_seq < MaxSeq
  /\ last' = [op |-> "findAndReportMovingObjects", ret |-> 0, added |-> 0, raw |-> NoProfile]
  /\ UNCHANGED << sensor, bank_argument, bankVars, env, now, writes, hostVars, PC2_message >>
  /\ IF ~bank_is_filled
     THEN /\ cycle' = NoCycle
          /\ UNCHANGED moa_seq
     ELSE LET found == FindObjects(0, 0, <<>>, garbage)
          IN  /\ cycle' = [ran |-> TRUE, candidates |-> found,
                           objects |-> PushedBack(found, 1)]
              /\ moa_seq' = moa_seq + 1

Next ==
  \/ \E ranges \in LaserScans : InitLaserScan(ranges)
  \/ \E ranges \in LaserScans : AddLaserScan(ranges)
  \/ \E msg \in PointCloud2s : InitPointCloud2(msg)
  \/ \E points \in PointLists, bank_prev \in PreviousSlot : AddPointCloud2(points, bank_prev)
  \/ \E garbage \in GarbageTransforms : findAndReportMovingObjects(garbage)

Spec == Init /\ [][Next]_vars

(***************************************************************************)
(* The LaserScan interpreter with every transform provider and scorer.     *)
(***************************************************************************)
InitKinematics == InitBank({"LaserScan"}, {AlphaDen}, {2}, {2}, Envs)

NextLaserScan ==
  \/ \E ranges \in LaserScans : InitLaserScan(ranges)
  \/ \E ranges \in LaserScans : AddLaserScan(ranges)
  \/ \E garbage \in GarbageTransforms : findAndReportMovingObjects(garbage)

SpecKinematics == InitKinematics /\ [][NextLaserScan]_vars

(***************************************************************************)
(* The LaserScan interpreter without smoothing, on a bank of three scans   *)
(* that takes single points for objects.                                   *)
(***************************************************************************)
InitTracker == InitBank({"LaserScan"}, {AlphaDen}, {3}, {1}, {NominalEnv})

SpecTracker == InitTracker /\ [][NextLaserScan]_vars

(***************************************************************************)
(* The PointCloud2 interpreter on both hosts, with sensors of both byte     *)
(* orders and with coordinate fields of every width.                       *)
(***************************************************************************)
CoordinateCatalogs ==
  { [x |-> 7, y |-> 7, z |-> 7],
    [x |-> 8, y |-> 8, z |-> 8],
    [x |-> 7, y |-> 7, z |-> 3],
    [x |-> 2, y |-> 7, z |-> 7] }

CoordinateClouds ==
  { [fields |-> c, points |-> p] : c \in CoordinateCatalogs, p \in PointLists }

InitDecoding ==
  InitBankOn({"PointCloud2"},
             [ ema_alpha : {AlphaDen}, nr_scans_in_bank : {2},
               object_threshold_min_nr_points : {2}, map_frame : {"map"},
               range_min : {0}, range_max : {0} ],
             {NominalEnv}, BOOLEAN, BOOLEAN, {TRUE})

NextPointCloud2 ==
  \/ \E msg \in CoordinateClouds : InitPointCloud2(msg)
  \/ \E points \in PointLists, bank_prev \in PreviousSlot : AddPointCloud2(points, bank_prev)
  \/ \E garbage \in GarbageTransforms : findAndReportMovingObjects(garbage)

SpecPointCloud2 == InitDecoding /\ [][NextPointCloud2]_vars

(***************************************************************************)
(* The decoding of one point: getOffsetsAndBytes on the fields of a        *)
(* message of float or double coordinates, then readPoint on its data, as  *)
(* init and addFirstMessage call them for the first point.                 *)
(***************************************************************************)
FloatCatalogs == { [x |-> 7, y |-> 7, z |-> 7], [x |-> 8, y |-> 8, z |-> 8] }

SentPoints == [x : CoordinateValues, y : CoordinateValues, z : CoordinateValues]

DecodePoint(fields, sent, beyond) ==
  /\ Running
  /\ sensor = "PointCloud2"
  /\ getOffsetsAndBytes(fields) = 0
  /\ PC2_message' = ResolveFields(fields).pc2
  /\ last' = [op |-> "readPoint", ret |-> 0, added |-> 0, raw |-> NoProfile,
              fields |-> fields, sent |-> sent, beyond |-> beyond,
              point |-> readPoint(PointData(sent, fields, is_bigendian), must_reverse_bytes,
                                  ResolveFields(fields).pc2, beyond,
                                  [x |-> 0, y |-> 0, z |-> 0])]
  /\ UNCHANGED << sensor, bank_argument, bankVars, moa_seq, env, now, writes, cycle, hostVars >>

NextDecode ==
  \E fields \in FloatCatalogs, sent \in SentPoints, beyond \in GarbageBytes :
    DecodePoint(fields, sent, beyond)

SpecDecode == InitDecoding /\ [][NextDecode]_vars

(***************************************************************************)
(* Both interpreters with configurations that BankArgument::check does not *)
(* accept (ema_alpha = 1.5, object_threshold_min_nr_points = 0, an empty   *)
(* map_frame), on builds with and without assertions.  The scans are       *)
(* finite.                                                                 *)
(***************************************************************************)
Configurations ==
  [ ema_alpha : {AlphaDen, AlphaDen + 1}, nr_scans_in_bank : {2},
    object_threshold_min_nr_points : {0, 2}, map_frame : {"map", ""},
    range_min : {0}, range_max : {0} ]

FiniteLaserScans == { ranges \in LaserScans : \A i \in Indices : IsFinite(ranges[i]) }

InitConfiguration ==
  InitBankOn({"LaserScan", "PointCloud2"}, Configurations, {NominalEnv},
             {TRUE}, {FALSE}, BOOLEAN)

NextConfiguration ==
  \/ \E ranges \in FiniteLaserScans : InitLaserScan(ranges)
  \/ \E ranges \in FiniteLaserScans : AddLaserScan(ranges)
  \/ \E msg \in PointCloud2s : InitPointCloud2(msg)
  \/ \E points \in PointLists, bank_prev \in PreviousSlot : AddPointCloud2(points, bank_prev)
  \/ \E garbage \in GarbageTransforms : findAndReportMovingObjects(garbage)

SpecConfiguration == InitConfiguration /\ [][NextConfiguration]_vars

(***************************************************************************)
(* The PointCloud2 interpreter on clouds that are not dense: a point the   *)
(* sensor has no measurement for has NaN coordinates, and so a NaN range   *)
(* and NaN angles.                                                         *)
(***************************************************************************)
NaNPoint == [range |-> NaN, index_min |-> NaN, index_max |-> NaN, z |-> NaN]

SparsePointLists == SeqsUpTo(Points \cup {NaNPoint}, MaxPoints)

SparseClouds ==
  { [fields |-> [x |-> 7, y |-> 7, z |-> 7], points |-> p] : p \in SparsePointLists }

InitSparseClouds ==
  InitBankOn({"PointCloud2"},
             [ ema_alpha : {1, AlphaDen}, nr_scans_in_bank : {2},
               object_threshold_min_nr_points : {2}, map_frame : {"map"},
               range_min : {0}, range_max : {0} ],
             {NominalEnv}, {TRUE}, {FALSE}, {TRUE})

NextSparseClouds ==
  \/ \E msg \in SparseClouds : InitPointCloud2(msg)
  \/ \E points \in SparsePointLists, bank_prev \in PreviousSlot : AddPointCloud2(points, bank_prev)
  \/ \E garbage \in GarbageTransforms : findAndReportMovingObjects(garbage)

SpecSparseClouds == InitSparseClouds /\ [][NextSparseClouds]_vars

(***************************************************************************)
(* Claims.                                                                 *)
(***************************************************************************)
Depth == bank_argument.nr_scans_in_bank
Candidates == { cycle.candidates[k] : k \in 1..Len(cycle.candidates) }
Objects == { cycle.objects[k] : k \in 1..Len(cycle.objects) }
Newest == bank_ranges_ema[bank_index_newest]
IsReported(c) == \E o \in Objects : o.index_min = c.index_min /\ o.index_max = c.index_max
Abs(n) == IF n < 0 THEN 0 - n ELSE n

\* C1: counting the first stored message and every later accepted
\* addMessage as one write, bank_is_filled is false after each of the first
\* depth-1 writes, true after the depth-th write (at which put has wrapped
\* to 0, below newest) and true after every later write.
C1_FilledAtDepthWrites ==
  writes >= 1 =>
    /\ bank_is_filled <=> (writes >= Depth)
    /\ writes = Depth => (bank_index_put = 0 /\ bank_index_put < bank_index_newest)

C1_Witness ==
  /\ Depth >= 3
  /\ writes > Depth
  /\ bank_is_filled
  /\ last.op = "addMessage"

\* C2: a PointCloud2 message without an accepted point makes addMessage
\* return -1 and leaves put, newest, filled and the ranges and the stamp of
\* every slot as they were.
C2_ZeroPointsLeaveBank ==
  [][ (last'.op = "addMessage" /\ last'.added = 0)
        => /\ last'.ret = 0 - 1
           /\ UNCHANGED << bank_index_put, bank_index_newest, bank_is_filled,
                           bank_ranges_ema, bank_stamp >> ]_vars

\* C3: with miss tolerance 0, when the segment grown at some slot of the
\* walk is narrower than min_points, or differs from the segment of the
\* next newer slot by more than the width bound or the mean-range bound,
\* getOldIndices returns index_mean_old = -1 and the object is not reported.
C3_StepViolates(c, k) ==
  LET walk == c.old.walk
      step == walk[k]
      width == step.right - step.left + 1
      prev_width == IF k = 1 THEN c.nr_object_points
                    ELSE walk[k - 1].right - walk[k - 1].left + 1
      prev_sum == IF k = 1 THEN c.object_range_sum ELSE walk[k - 1].range_sum
  IN  /\ step.in_range
      /\ \/ width < bank_argument.object_threshold_min_nr_points
         \/ Abs(width - prev_width) > object_threshold_max_delta_width_in_points
         \/ /\ ~IsNaN(step.range_sum) /\ ~IsNaN(prev_sum)
            /\ Abs(step.range_sum * prev_width - prev_sum * width)
                 > object_threshold_bank_tracking_max_delta_distance * width * prev_width

C4_SameSegmentIn(c, slot) ==
  LET ranges == bank_ranges_ema[slot]
  IN  /\ \A i \in c.index_min..c.index_max : ranges[i] = Newest[i]
      /\ c.index_min > 0 => ~PartOfObject(ranges[c.index_min], ranges[c.index_min - 1])
      /\ c.index_max < PointsPerScan - 1
           => ~PartOfObject(ranges[c.index_max], ranges[c.index_max + 1])

C4_Returned(c) ==
  /\ c.old.index_mean_old >= 0
  /\ c.tracked
  /\ c.old.index_min_old = c.index_min
  /\ c.old.index_max_old = c.index_max
  /\ c.old.index_mean_old = (c.index_min + c.index_max) \div 2
  /\ c.old.range_sum_old = c.object_range_sum

C4_TrackerSuccess ==
  \A c \in Candidates :
    (c.valid /\ \A slot \in Slots : C4_SameSegmentIn(c, slot)) => C4_Returned(c)

\* C4 for the segments whose ranges are all within the limits the tracker
\* is called with
C4_TrackerSuccessWithinMaxDistance ==
  \A c \in Candidates :
    ( /\ c.valid
      /\ \A slot \in Slots : C4_SameSegmentIn(c, slot)
      /\ \A i \in c.index_min..c.index_max : FLe(Newest[i], TrackRangeMax) )
      => C4_Returned(c)

\* C5: when a lookup for a frame fails at the old or the new time, by
\* timeout or by exception, the old and the new position in that frame are
\* the sensor-frame positions, the success flag of the failed lookup is
\* false (also as handed to the scorer), and the object is taken through
\* the speed and confidence checks.
C5_FlagIndex(f, t) ==
  (IF f = "map" THEN 0 ELSE IF f = "fixed" THEN 2 ELSE 4) + (IF t = "old" THEN 1 ELSE 2)

C5_LookupFailureFallsBack ==
  \A c \in Candidates : \A f \in Frames : \A t \in Times :
    (c.tracked /\ LookupOutcome(f, t) # "ok")
      => /\ c.kin.points[f] = c.kin.sensor_points
         /\ ~c.kin.success[f][t]
         /\ c.kin.scored => ~c.kin.scorer_flags[C5_FlagIndex(f, t)]

\* C5 for the lookups that fail with an exception
C5_ExceptionFallsBack ==
  \A c \in Candidates : \A f \in Frames : \A t \in Times :
    (c.tracked /\ LookupOutcome(f, t) = "exception")
      => /\ c.kin.points[f] = c.kin.sensor_points
         /\ ~c.kin.success[f][t]
         /\ c.kin.scored => ~c.kin.scorer_flags[C5_FlagIndex(f, t)]

\* C6: two adjacent indices of the newest slot whose ranges differ by more
\* than edge_max_delta_range are never in one segment; the segments of a
\* cycle are disjoint and in increasing index order; the scan resumes right
\* after a candidate's last index, so that every index in range is in a
\* segment; ranges [2.0, 2.0, 5.0, 5.0] give the segments [0,1] and [2,3].
C6_SegmentationSplits ==
  cycle.ran =>
    /\ \A c \in Candidates : \A i \in c.index_min..(c.index_max - 1) :
         FLe(FAbsDiff(Newest[i], Newest[i + 1]), object_threshold_edge_max_delta_range)
    /\ \A k \in 1..(Len(cycle.candidates) - 1) :
         cycle.candidates[k].index_max < cycle.candidates[k + 1].index_min
    /\ \A c \in Candidates :
         /\ 0 <= c.index_min /\ c.index_min <= c.index_max /\ c.index_max < PointsPerScan
         /\ c.nr_object_points = c.index_max - c.index_min + 1
    /\ \A i \in Indices :
         ~OutOfRange(Newest[i]) => \E c \in Candidates : c.index_min <= i /\ i <= c.index_max
    /\ Newest = Prof(<<200, 200, 500, 500>>)
         => /\ Len(cycle.candidates) = 2
            /\ cycle.candidates[1].index_min = 0 /\ cycle.candidates[1].index_max = 1
            /\ cycle.candidates[2].index_min = 2 /\ cycle.candidates[2].index_max = 3

C6_Witness ==
  /\ cycle.ran
  /\ Newest = Prof(<<200, 200, 500, 500>>)
  /\ Len(cycle.candidates) = 2

\* C7: a candidate with fewer than min_points points is not handed to the
\* tracker and is not in the output list, and no other candidate of the
\* cycle starts within it: the scan goes on after its last index.
C7_SmallSegmentsSkipped ==
  \A c \in Candidates :
    c.nr_object_points < bank_argument.object_threshold_min_nr_points
      => /\ ~c.valid
         /\ c.old.walk = <<>>
         /\ ~c.tracked
         /\ \A o \in Objects : o.index_max < c.index_min \/ c.index_max < o.index_min
         /\ \A d \in Candidates :
              d # c => (d.index_max < c.index_min \/ c.index_max < d.index_min)

C7_Witness ==
  /\ bank_argument.object_threshold_min_nr_points = 3
  /\ \E c \in Candidates :
       /\ c.nr_object_points = 2
       /\ ~c.valid
       /\ \E d \in Candidates : d.index_min = c.index_max + 1

\* C8: a tracked object whose speed is below min_speed in the sensor, map,
\* fixed and base frames is not in the output list and the scorer is not
\* called for it; with a speed of at least min_speed in one of the frames
\* the scorer is called.
C8_Defined(points) ==
  \A k \in 1..2 : ~IsNaN(points.new[k]) /\ ~IsNaN(points.old[k])

C8_SquaredDistance(points) ==
  LET dx == points.new[1] - points.old[1]
      dy == points.new[2] - points.old[2]
  IN  dx * dx + dy * dy

C8_Below(points, dt) ==
  /\ C8_Defined(points)
  /\ C8_SquaredDistance(points)
       < object_threshold_min_speed * object_threshold_min_speed * dt * dt

C8_AtLeast(points, dt) ==
  /\ C8_Defined(points)
  /\ C8_SquaredDistance(points)
       >= object_threshold_min_speed * object_threshold_min_speed * dt * dt

C8_AllBelow(c) ==
  /\ C8_Below(c.kin.sensor_points, c.kin.dt)
  /\ \A f \in Frames : C8_Below(c.kin.points[f], c.kin.dt)

C8_SomeAtLeast(c) ==
  \/ C8_AtLeast(c.kin.sensor_points, c.kin.dt)
  \/ \E f \in Frames : C8_AtLeast(c.kin.points[f], c.kin.dt)

C8_SpeedThreshold ==
  \A c \in Candidates :
    c.tracked =>
      /\ c.kin.dt > 0
      /\ C8_AllBelow(c) => (~c.kin.scored /\ ~IsReported(c))
      /\ C8_SomeAtLeast(c) => c.kin.scored

C8_Witness ==
  \E c \in Candidates :
    /\ c.tracked
    /\ C8_AllBelow(c)
    /\ ~c.kin.scored
    /\ ~IsReported(c)

\* slow in the sensor frame, fast in the map frame
C8_WitnessOneFrame ==
  \E c \in Candidates :
    /\ c.tracked
    /\ C8_Below(c.kin.sensor_points, c.kin.dt)
    /\ C8_AtLeast(c.kin.points["map"], c.kin.dt)
    /\ c.kin.scored

\* C9: every object of the output list carries the scorer's result clamped
\* to [0,1] (1.7 gives 1.0, -0.3 gives 0.0), which is at least
\* min_confidence; a scored object whose clamped confidence is below
\* min_confidence is not in the list.
C9_Clamped(result) == IF result < 0 THEN 0 ELSE IF result > 100 THEN 100 ELSE result

C9_ConfidenceClamped ==
  /\ \A o \in Objects :
       /\ 0 <= o.confidence /\ o.confidence <= 100
       /\ object_threshold_min_confidence <= o.confidence
       /\ o.confidence = C9_Clamped(env.scorer)
  /\ \A c \in Candidates :
       c.kin.scored =>
         /\ c.kin.confidence = C9_Clamped(c.kin.scorer_result)
         /\ c.kin.scorer_result = 170 => c.kin.confidence = 100
         /\ c.kin.scorer_result = 0 - 30 => c.kin.confidence = 0
         /\ IsReported(c) <=> (object_threshold_min_confidence <= c.kin.confidence)

C9_Witness ==
  /\ env.scorer = 170
  /\ \E o \in Objects : o.confidence = 100

C9_WitnessLow ==
  /\ env.scorer = 0 - 30
  /\ \E c \in Candidates : c.kin.scored /\ c.kin.confidence = 0 /\ ~IsReported(c)

\* C10: with alpha = 1.0 the slot written by the first message and by every
\* accepted addMessage, of either adapter, equals the raw profile of that
\* message at every index.
C10_AlphaOnePassThrough ==
  ( /\ bank_argument.ema_alpha = AlphaDen
    /\ last.op \in {"init", "addMessage"}
    /\ last.ret = 0 )
    => \A i \in Indices : bank_ranges_ema[bank_index_newest][i] = last.raw[i]

\* C10 for the PointCloud2 adapter, and for the LaserScan adapter as long as
\* the newest slot holds finite ranges only
C10_PassThroughFinite ==
  [][ ( /\ bank_argument.ema_alpha = AlphaDen
        /\ last'.op \in {"init", "addMessage"}
        /\ last'.ret = 0
        /\ \/ sensor = "PointCloud2"
           \/ last'.op = "init"
           \/ \A i \in Indices : IsFinite(bank_ranges_ema[bank_index_newest][i]) )
        => \A i \in Indices : bank_ranges_ema'[bank_index_newest'][i] = last'.raw[i] ]_vars

\* C11: for every alpha in [0,1] and every index, the value an accepted
\* addMessage writes lies between the prior smoothed value p of the newest
\* slot and the raw value n of the message: min(p,n) <= written <= max(p,n).
C11_Min(p, n) == IF FLe(p, n) THEN p ELSE n
C11_Max(p, n) == IF FLe(p, n) THEN n ELSE p

C11_Within(p, n, written) ==
  /\ FLe(C11_Min(p, n), written)
  /\ FLe(written, C11_Max(p, n))

C11_EmaBound ==
  [][ ( /\ last'.op = "addMessage"
        /\ last'.ret = 0
        /\ bank_index_newest \in Slots )
        => \A i \in Indices :
             C11_Within(bank_ranges_ema[bank_index_newest][i], last'.raw[i],
                        bank_ranges_ema'[bank_index_newest'][i]) ]_vars

\* C11 for finite p and n
C11_EmaBoundFinite ==
  [][ ( /\ last'.op = "addMessage"
        /\ last'.ret = 0
        /\ bank_index_newest \in Slots )
        => \A i \in Indices :
             ( /\ IsFinite(bank_ranges_ema[bank_index_newest][i])
               /\ IsFinite(last'.raw[i]) )
               => C11_Within(bank_ranges_ema[bank_index_newest][i], last'.raw[i],
                             bank_ranges_ema'[bank_index_newest'][i]) ]_vars

\* C12: an init with a PointCloud2 message in which one of the x, y, z
\* fields is absent, or has a datatype code that maps to none of the widths
\* 1, 2, 4, 8, returns an error and leaves a bank that was not initialized
\* uninitialized: no slot allocated or written, indices not set.
C12_Unresolvable(fields) ==
  \E code \in {fields.x, fields.y, fields.z} : code \notin 1..8

C12_FieldResolutionError ==
  [][ ( /\ sensor = "PointCloud2"
          /\ now' = now + 1
          /\ last'.op = "init"
          /\ C12_Unresolvable(last'.fields) )
        => /\ last'.ret = 0 - 1
           /\ UNCHANGED << bank_is_initialized, bank_is_filled, bank_index_put,
                           bank_index_newest, bank_ranges_ema, bank_stamp, writes >>
           /\ ~bank_is_initialized
                => /\ ~bank_is_initialized'
                   /\ bank_ranges_ema' = <<>>
                   /\ bank_stamp' = <<>> ]_vars

\* a failed init of a bank that has no storage yet, followed by nothing but
\* further init attempts
C12_Witness ==
  /\ sensor = "PointCloud2"
  /\ last.op = "init"
  /\ last.ret = 0 - 1
  /\ ~bank_is_initialized
  /\ bank_ranges_ema = <<>>
  /\ now >= 2

\* C15: the object list of every reporting cycle carries a sequence number,
\* and the number carried by the list of a later cycle is strictly greater
\* than the number carried by the list of an earlier cycle.  The only
\* sequence numbers in the list moa are the header.seq of its objects.
C15_Numbers(c) == { c.objects[k].seq : k \in 1..Len(c.objects) }

C15_ListSequenceIncreases ==
  [][ ( /\ cycle.ran
        /\ cycle'.ran
        /\ last'.op = "findAndReportMovingObjects" )
        => \A earlier \in C15_Numbers(cycle), later \in C15_Numbers(cycle') :
             earlier < later ]_vars

\* the cycle counter moa_seq, which goes into the headers of the EMA and
\* marker messages, does grow by one in every cycle on a filled bank
C15_CycleCounterIncreases ==
  [][ /\ moa_seq' >= moa_seq
      /\ (cycle'.ran /\ last'.op = "findAndReportMovingObjects")
           => moa_seq' = moa_seq + 1 ]_vars

\* C17: the stamps handed to the bank strictly increase; then, whatever
\* messages were accepted or rejected, in every reporting cycle on a filled
\* bank dt = stamp[newest] - stamp[put] is strictly positive and stamp[put]
\* is the smallest stamp in the bank.
C17_ElapsedTime == bank_stamp[bank_index_newest] - bank_stamp[bank_index_put]

C17_PositiveElapsedTime ==
  cycle.ran =>
    /\ C17_ElapsedTime > 0
    /\ \A slot \in Slots : bank_stamp[bank_index_put] <= bank_stamp[slot]
    /\ \A c \in Candidates : c.tracked => c.kin.dt > 0

\* C17 for the banks no message was rejected by
C17_PositiveWithoutRejection ==
  (cycle.ran /\ now = writes) =>
    /\ C17_ElapsedTime > 0
    /\ \A slot \in Slots : bank_stamp[bank_index_put] <= bank_stamp[slot]
    /\ \A c \in Candidates : c.tracked => c.kin.dt > 0

\* C18: for one segment of the newest slot on a filled bank the tracker
\* starts at slot (newest - 1) mod depth, goes one slot older at each level,
\* wrapping from 0 to depth - 1, never looks at the newest slot or at a slot
\* twice, looks at no more than depth - 1 slots and, when it does not
\* abort, at exactly depth - 1 slots, the last one being the slot put indexes.
C18_Older(slot) == (slot + Depth - 1) % Depth

C18_WalkOrder ==
  \A c \in Candidates :
    c.valid =>
      LET walk == c.old.walk
      IN  /\ 1 <= Len(walk) /\ Len(walk) <= Depth - 1
          /\ walk[1].level = C18_Older(bank_index_newest)
          /\ \A k \in 1..(Len(walk) - 1) : walk[k + 1].level = C18_Older(walk[k].level)
          /\ \A k \in 1..Len(walk) : walk[k].level \in Slots \ {bank_index_newest}
          /\ \A j, k \in 1..Len(walk) : j # k => walk[j].level # walk[k].level
          /\ c.tracked => /\ Len(walk) = Depth - 1
                          /\ walk[Len(walk)].level = bank_index_put

\* a tracked segment whose walk wraps from slot 0 to slot depth - 1
C18_Witness ==
  /\ Depth = 3
  /\ bank_index_newest = 1
  /\ \E c \in Candidates :
       /\ c.tracked
       /\ Len(c.old.walk) = 2
       /\ c.old.walk[1].level = 0
       /\ c.old.walk[2].level = 2

\* C19: the segment grown at a tracker step continues the track only if its
\* width is at least min_points, its width differs from the width of the
\* segment of the next newer slot by at most max_delta_width_points (wider
\* or narrower), and its mean range differs from that segment's mean range
\* by at most tracking_max_delta_distance; after an accepted step the miss
\* counter is 0 and the next older slot is searched from (left + right) / 2.
C19_Previous(c, k) ==
  IF k = 1
  THEN [width |-> c.nr_object_points, range_sum |-> c.object_range_sum]
  ELSE [width |-> c.old.walk[k - 1].right - c.old.walk[k - 1].left + 1,
        range_sum |-> c.old.walk[k - 1].range_sum]

C19_Width(step) == step.right - step.left + 1

C19_WidthsHold(c, k) ==
  LET step == c.old.walk[k]
      prev == C19_Previous(c, k)
  IN  /\ C19_Width(step) >= bank_argument.object_threshold_min_nr_points
      /\ Abs(C19_Width(step) - prev.width) <= object_threshold_max_delta_width_in_points

\* |range_sum / width - prev.range_sum / prev.width| <= tracking_max_delta_distance
C19_MeanRangeHolds(c, k) ==
  LET step == c.old.walk[k]
      prev == C19_Previous(c, k)
  IN  /\ ~IsNaN(step.range_sum)
      /\ ~IsNaN(prev.range_sum)
      /\ Abs(step.range_sum * prev.width - prev.range_sum * C19_Width(step))
           <= object_threshold_bank_tracking_max_delta_distance
                * C19_Width(step) * prev.width

\* the step was taken as a continuation: the walk went on to an older slot
\* or ended with the object tracked
C19_Accepted(c, k) ==
  /\ c.old.walk[k].in_range
  /\ k < Len(c.old.walk) \/ c.tracked

C19_StepAcceptance ==
  \A c \in Candidates : \A k \in 1..Len(c.old.walk) :
    /\ C19_Accepted(c, k) => (C19_WidthsHold(c, k) /\ C19_MeanRangeHolds(c, k))
    /\ (C19_Accepted(c, k) /\ k < Len(c.old.walk))
         => /\ c.old.walk[k + 1].consecutive_failures = 0
            /\ c.old.walk[k + 1].index_mean
                 = (c.old.walk[k].left + c.old.walk[k].right) \div 2

\* C19 with the mean-range bound asked for only where both mean ranges are
\* numbers, and with every step that meets the three bounds accepted
C19_StepAcceptanceOfNumbers ==
  \A c \in Candidates : \A k \in 1..Len(c.old.walk) :
    LET numbers == ~IsNaN(c.old.walk[k].range_sum) /\ ~IsNaN(C19_Previous(c, k).range_sum)
    IN  /\ (C19_Accepted(c, k) /\ numbers)
             => (C19_WidthsHold(c, k) /\ C19_MeanRangeHolds(c, k))
        /\ C19_Accepted(c, k) => C19_WidthsHold(c, k)
        /\ (c.old.walk[k].in_range /\ C19_WidthsHold(c, k) /\ C19_MeanRangeHolds(c, k))
             => C19_Accepted(c, k)
        /\ (C19_Accepted(c, k) /\ k < Len(c.old.walk))
             => /\ c.old.walk[k + 1].consecutive_failures = 0
                /\ c.old.walk[k + 1].index_mean
                     = (c.old.walk[k].left + c.old.walk[k].right) \div 2

\* C20: after a cycle, every point of every candidate segment of the newest
\* slot has a range within [range_min, min(range_max, max_distance)].
C20_CandidatePointsInTrackRange ==
  cycle.ran =>
    \A c \in Candidates : \A i \in c.index_min..c.index_max :
      /\ FLe(TrackRangeMin, Newest[i])
      /\ FLe(Newest[i], TrackRangeMax)

\* C20 with the bounds the segmentation compares against, for ranges that
\* are numbers: [range_min, range_max] of the configuration
C20_CandidatePointsInSensorRange ==
  cycle.ran =>
    \A c \in Candidates : \A i \in c.index_min..c.index_max :
      ~IsNaN(Newest[i]) =>
        /\ bank_argument.range_min <= Newest[i]
        /\ Newest[i] <= bank_argument.range_max

\* C13: when a coordinate field was resolved to 1 or 2 bytes, no point of a
\* PointCloud2 message is counted as accepted and no bin of the put slot is
\* written: the call adds 0 points and leaves the slot as resetPutPoints
\* made it.
C13_Narrow(pc2) ==
  /\ \A c \in {"x", "y", "z"} : 0 <= pc2[c].bytes
  /\ \E c \in {"x", "y", "z"} : pc2[c].bytes \in {1, 2}

C13_UnsupportedWidthDropsPoint ==
  (last.op \in {"init", "addMessage"} /\ C13_Narrow(PC2_message))
    => (last.added = 0 /\ last.raw = resetPutPoints)

\* C13, the other widths: with coordinates of 4 or 8 bytes at offsets inside
\* the point, a message adds the points of its list that lie in the volume
C13_InVolume(points) == { k \in 1..Len(points) : ~PointOutsideVolume(points[k]) }

C13_SupportedWidthsDecode ==
  [][ \A points \in PointLists, bank_prev \in PreviousSlot :
        ( /\ ~NotRead(PC2_message).x /\ ~NotRead(PC2_message).y /\ ~NotRead(PC2_message).z
          /\ AddPointCloud2(points, bank_prev) )
        => last'.added = Cardinality(C13_InVolume(points)) ]_vars

\* C14: a point of float or double coordinates, serialized in the byte
\* order the message's flag names, is decoded to the values sent, whether
\* the flag agrees with the host or not.
C14_ByteOrderRoundTrip ==
  last.op = "readPoint" => last.point = last.sent

\* C14, where the flag agrees with the host: no byte is moved and the values
\* sent are decoded
C14_AgreeingFlagsDecode ==
  (last.op = "readPoint" /\ ~must_reverse_bytes)
    => /\ last.point = last.sent
       /\ \A c \in {"x", "y", "z"} :
            CoordinateArray(PointData(last.sent, last.fields, is_bigendian), must_reverse_bytes,
                            PC2_message[c], last.beyond)
              = Serialized(last.sent[c], PC2_message[c].bytes, is_bigendian)

\* C14, readPoint by itself: at the offsets the message gives for its
\* fields, readPoint decodes the values sent on either host from either
\* byte order, and its arrays are the mirrored bytes when the flag disagrees
C14_FieldsOfMessage(fields) ==
  [c \in {"x", "y", "z"} |->
     [offset |-> FieldOffsets(fields)[c], bytes |-> BytesOfDatatype(fields[c])]]

C14_ReadPointAtMessageOffsets ==
  last.op = "readPoint"
    => LET data == PointData(last.sent, last.fields, is_bigendian)
           pc2 == C14_FieldsOfMessage(last.fields)
       IN  /\ readPoint(data, must_reverse_bytes, pc2, last.beyond, [x |-> 0, y |-> 0, z |-> 0])
                = last.sent
           /\ must_reverse_bytes
                => \A c \in {"x", "y", "z"} :
                     CoordinateArray(data, TRUE, pc2[c], last.beyond)
                       = Mirror(Serialized(last.sent[c], pc2[c].bytes, is_bigendian))

\* C14, reverseBytes: byte i goes to position n-1-i, and twice is the identity
C14_ReverseBytesTwice ==
  last.op = "readPoint"
    => \A c \in {"x", "y", "z"} :
         LET bytes == Serialized(last.sent[c], PC2_message[c].bytes, is_bigendian)
         IN  /\ reverseBytes(bytes) = Mirror(bytes)
             /\ reverseBytes(bytes) # bytes
             /\ reverseBytes(reverseBytes(bytes)) = bytes

\* C16: a configuration that BankArgument::check does not accept never gets
\* a bank: no slot storage, no stored message, bank_is_initialized false.
C16_NoBank ==
  /\ ~bank_is_initialized
  /\ bank_ranges_ema = << >>
  /\ bank_stamp = << >>
  /\ writes = 0

C16_InvalidConfigurationRejected ==
  ~check(bank_argument) => C16_NoBank

\* C16 on a build with assertions: the first init ends the process
C16_AssertionEndsProcess ==
  /\ (ROS_ASSERT_ENABLED /\ ~check(bank_argument)) => C16_NoBank
  /\ ~Running => (ROS_ASSERT_ENABLED /\ ~check(bank_argument))

\* C21: an accepted addMessage on a bank that holds a stored message, with
\* alpha < 1.0, leaves in the slot that put indexed before the call
\* alpha * r[i] + (1 - alpha) * prev[i] at every index i, prev being the slot
\* that newest indexed before the call; afterwards newest indexes the slot
\* just written.
C21_Expected(alpha, r, prev) ==
  FDivRound(FAdd(FMul(alpha, r), FMul(AlphaDen - alpha, prev)), AlphaDen)

C22_InVolume(points) ==
  { k \in 1..Len(points) :
      FLe(PC2_threshold_z_min, points[k].z) /\ FLe(points[k].z, PC2_threshold_z_max) }

C22_Covering(points, i) == { k \in C22_InVolume(points) : i \in PointBins(points[k], 0) }

C22_Nearest(points, i) ==
  IF \E k \in C22_Covering(points, i) : FLt(points[k].range, ResetRange)
  THEN LET near == CHOOSE k \in C22_Covering(points, i) :
                     \A j \in C22_Covering(points, i) : FLe(points[k].range, points[j].range)
       IN  points[near].range
  ELSE ResetRange

C22_RawProfile(points) ==
  /\ last'.raw = [i \in Indices |-> C22_Nearest(points, i)]
  /\ last'.added = Cardinality(C22_InVolume(points))

C22_NearestPointPerBin ==
  [][ (sensor = "PointCloud2" /\ now' = now + 1 /\ last'.raw # NoProfile)
        => /\ \A msg \in SparseClouds : InitPointCloud2(msg) => C22_RawProfile(msg.points)
           /\ \A points \in SparsePointLists, bank_prev \in PreviousSlot :
                AddPointCloud2(points, bank_prev) => C22_RawProfile(points) ]_vars

\* C22 for messages all of whose points carry numbers
C22_Numbers(points) == \A k \in 1..Len(points) : ~IsNaN(points[k].z) /\ ~IsNaN(points[k].range)

C22_NearestPointPerBinOfNumbers ==
  [][ (sensor = "PointCloud2" /\ now' = now + 1 /\ last'.raw # NoProfile)
        => /\ \A msg \in SparseClouds :
                (C22_Numbers(msg.points) /\ InitPointCloud2(msg)) => C22_RawProfile(msg.points)
           /\ \A points \in SparsePointLists, bank_prev \in PreviousSlot :
                (C22_Numbers(points) /\ AddPointCloud2(points, bank_prev))
                  => C22_RawProfile(points) ]_vars

(***************************************************************************)
(* C23: a reporting cycle issues at most six transform lookups in total,   *)
(* however many segments are tracked in it, and every lookup is made at    *)
(* stamp[put] or stamp[newest].                                            *)
(***************************************************************************)
RECURSIVE C23_LookupsFrom(_, _)
C23_LookupsFrom(found, k) == IF k > Len(found) THEN <<>> ELSE found[k].kin.lookups \o C23_LookupsFrom(found, k + 1)

C23_CycleLookups == C23_LookupsFrom(cycle.candidates, 1)

C23_Reporting == last.op = "findAndReportMovingObjects" /\ cycle.ran

C23_TrackedInCycle == { k \in 1..Len(cycle.candidates) : cycle.candidates[k].tracked }

\* C23 as stated: at most six lookups in a cycle, each at one of the two times
C23_AtMostSixLookups ==
  C23_Reporting =>
    /\ Len(C23_CycleLookups) <= 6
    /\ \A k \in 1..Len(C23_CycleLookups) :
         C23_CycleLookups[k].stamp \in {bank_stamp[bank_index_put], bank_stamp[bank_index_newest]}

\* C23, the part that holds: six lookups for each tracked segment, at
\* stamp[put] and stamp[newest] in turn for map, fixed and base
C23_SixLookupsPerTrackedSegment ==
  C23_Reporting =>
    /\ Len(C23_CycleLookups) = 6 * Cardinality(C23_TrackedInCycle)
    /\ \A k \in 1..Len(C23_CycleLookups) :
         /\ C23_CycleLookups[k].stamp = (IF k % 2 = 1 THEN bank_stamp[bank_index_put] ELSE bank_stamp[bank_index_newest])
         /\ C23_CycleLookups[k].frame = <<"map", "map", "fixed", "fixed", "base", "base">>[((k - 1) % 6) + 1]

C23_TwoTrackedSegments == C23_Reporting /\ Cardinality(C23_TrackedInCycle) = 2

(***************************************************************************)
(* C24: a segment that fails tracking, the speed threshold or the          *)
(* confidence threshold is dropped without changing which later segments   *)
(* are found and evaluated: the candidate segments of a cycle are the      *)
(* maximal runs of the newest slot, whatever became of the segments before *)
(* them, and the scan runs to the last angular index.                      *)
(***************************************************************************)
\* The last index of the run of the newest slot that starts at i
RECURSIVE C24_RunEnd(_, _)
C24_RunEnd(ranges, i) == IF i + 1 < PointsPerScan /\ PartOfObject(ranges[i], ranges[i + 1]) THEN C24_RunEnd(ranges, i + 1) ELSE i

\* The runs of the newest slot from index i on, as pairs of first and last index
RECURSIVE C24_Runs(_, _)
C24_Runs(ranges, i) == IF i >= PointsPerScan THEN <<>> ELSE IF OutOfRange(ranges[i]) THEN C24_Runs(ranges, i + 1) ELSE << << i, C24_RunEnd(ranges, i) >> >> \o C24_Runs(ranges, C24_RunEnd(ranges, i) + 1)

C24_Dropped(c) == ~c.tracked \/ ~c.kin.moving \/ ~c.kin.reported

C24_DroppedSegmentsKeepScan ==
  C23_Reporting =>
    /\ [k \in 1..Len(cycle.candidates) |-> << cycle.candidates[k].index_min, cycle.candidates[k].index_max >>] = C24_Runs(Newest, 0)
    /\ \A i \in Indices :
         ~OutOfRange(Newest[i]) => \E k \in 1..Len(cycle.candidates) : i \in cycle.candidates[k].index_min..cycle.candidates[k].index_max

\* A cycle in which a dropped segment is followed by a segment that is
\* evaluated and reported, up to the last angular index
C24_Witness ==
  /\ C23_Reporting
  /\ \E k \in 1..Len(cycle.candidates) : \E n \in 1..Len(cycle.candidates) :
       /\ k < n
       /\ C24_Dropped(cycle.candidates[k])
       /\ cycle.candidates[n].kin.reported
       /\ cycle.candidates[n].index_max = PointsPerScan - 1

(***************************************************************************)
(* C25: after the first message has been stored, between the calls put and *)
(* newest are slot indices and put = (newest + 1) mod depth, so that put   *)
(* is the slot written longest ago once the bank is filled.                *)
(***************************************************************************)
C25_PutIndexesOldestSlot ==
  writes >= 1 =>
    /\ 0 <= bank_index_put /\ bank_index_put < Depth
    /\ 0 <= bank_index_newest /\ bank_index_newest < Depth
    /\ bank_index_put = (bank_index_newest + 1) % Depth
    /\ bank_is_filled => \A s \in Slots : bank_stamp[bank_index_put] <= bank_stamp[s]

\* C25, the part that holds: the indices follow each other, and the put
\* slot of a filled LaserScan bank carries the oldest stamp
C25_IndicesFollowEachOther ==
  writes >= 1 =>
    /\ 0 <= bank_index_put /\ bank_index_put < Depth
    /\ 0 <= bank_index_newest /\ bank_index_newest < Depth
    /\ bank_index_put = (bank_index_newest + 1) % Depth
    /\ (bank_is_filled /\ sensor = "LaserScan")
         => \A s \in Slots : bank_stamp[bank_index_put] <= bank_stamp[s]


(***************************************************************************)
(* C26: between the calls, whenever bank_is_initialized is true, put and   *)
(* newest are slot indices in [0, depth - 1], also after an init whose     *)
(* first PointCloud2 message had no accepted point, so that a following    *)
(* addMessage reads and writes no slot at index -1.                        *)
(***************************************************************************)
C26_InitializedIndicesValid ==
  bank_is_initialized => (bank_index_put \in Slots /\ bank_index_newest \in Slots)

\* C26 for the banks whose init stored its message
C26_StoredInitIndicesValid ==
  (bank_is_initialized /\ writes >= 1) => (bank_index_put \in Slots /\ bank_index_newest \in Slots)

\* The addMessage after an init without accepted points blends with the
\* slot at index -1
C26_BlendWithSlotBeforeBank ==
  [][ (sensor = "PointCloud2" /\ last'.op = "addMessage" /\ last'.ret = 0)
        => bank_index_newest \in Slots ]_vars


(***************************************************************************)
(* C27: a reporting call made before the bank is filled, with fewer than   *)
(* depth stored scans, reports no object, issues no transform lookup, does *)
(* not advance moa_seq and leaves the slots, the stamps and the indices of *)
(* the bank unchanged.                                                     *)
(***************************************************************************)
C27_ReportBeforeFilled ==
  [][ (last'.op = "findAndReportMovingObjects" /\ now' = now /\ (~bank_is_filled \/ writes < Depth))
        => /\ cycle' = NoCycle
           /\ cycle'.objects = <<>>
           /\ C23_LookupsFrom(cycle'.candidates, 1) = <<>>
           /\ moa_seq' = moa_seq
           /\ bank_ranges_ema' = bank_ranges_ema
           /\ bank_stamp' = bank_stamp
           /\ bank_index_put' = bank_index_put
           /\ bank_index_newest' = bank_index_newest
           /\ bank_is_filled' = bank_is_filled ]_vars

\* A reporting call on a bank of three slots that holds two scans
C27_Witness ==
  /\ last.op = "findAndReportMovingObjects"
  /\ bank_is_initialized
  /\ ~bank_is_filled
  /\ Depth = 3
  /\ writes = 2
  /\ cycle = NoCycle
  /\ moa_seq = 0


(***************************************************************************)
(* C28: in a reporting cycle on a filled bank, the historical segment      *)
(* returned for a tracked object was found in the slot put indexes, the    *)
(* slot whose stamp is the old time of dt; the old position and the old    *)
(* time never come from different slots.                                   *)
(***************************************************************************)
C28_LastStep(c) == c.old.walk[Len(c.old.walk)]

C28_OldSegmentFromPutSlot ==
  C23_Reporting =>
    \A k \in 1..Len(cycle.candidates) :
      LET c == cycle.candidates[k]
          step == C28_LastStep(c)
      IN  c.tracked =>
            /\ bank_is_filled
            /\ step.level = bank_index_put
            /\ c.old.index_min_old = step.left
            /\ c.old.index_max_old = step.right
            /\ c.old.index_mean_old = (step.left + step.right) \div 2
            /\ c.old.range_sum_old = step.range_sum
            /\ \A i \in step.left..step.right : ~OutOfRange(bank_ranges_ema[bank_index_put][i])
            /\ c.kin.dt = bank_stamp[bank_index_newest] - bank_stamp[step.level]
            /\ c.kin.sensor_points.old = PolarToXY(step.range_sum, step.right - step.left + 1, 2 * ((step.left + step.right) \div 2))

\* A tracked object of a bank of three slots whose put slot is neither the
\* newest slot nor the slot before it
C28_Witness ==
  /\ C23_Reporting
  /\ Depth = 3
  /\ \E k \in 1..Len(cycle.candidates) :
       /\ cycle.candidates[k].tracked
       /\ C28_LastStep(cycle.candidates[k]).level = bank_index_put
       /\ cycle.candidates[k].kin.dt = 2


(***************************************************************************)
(* C29: when a PointCloud2 message without accepted points is followed by  *)
(* an accepted message m, the bank (the ranges and the stamp of every      *)
(* slot, put, newest, filled) is what ingesting m without the rejected     *)
(* message gives: m stored as the first message when nothing was stored    *)
(* before, m blended with the newest slot otherwise.                       *)
(***************************************************************************)
C29_Rejected ==
  /\ sensor = "PointCloud2"
  /\ bank_is_initialized
  /\ last.op \in {"init", "addMessage"}
  /\ last.ret = 0 - 1 /\ last.added = 0 /\ last.raw # NoProfile

\* The bank after m, of raw profile raw and stamp stamp, is ingested directly
C29_Direct(raw, stamp) ==
  IF writes = 0
  THEN [ranges |-> [bank_ranges_ema EXCEPT ![0] = raw],
        stamps |-> [bank_stamp EXCEPT ![0] = stamp],
        put |-> 1, newest |-> 0, filled |-> FALSE]
  ELSE [ranges |-> [bank_ranges_ema EXCEPT ![bank_index_put] = emaPutMessage(bank_argument.ema_alpha, raw, bank_ranges_ema[bank_index_newest])],
        stamps |-> [bank_stamp EXCEPT ![bank_index_put] = stamp],
        put |-> (bank_index_put + 1) % Depth,
        newest |-> (bank_index_newest + 1) % Depth,
        filled |-> (bank_is_filled \/ (bank_index_put + 1) % Depth < (bank_index_newest + 1) % Depth)]

C29_BankIsDirect ==
  [ranges |-> bank_ranges_ema, stamps |-> bank_stamp, put |-> bank_index_put, newest |-> bank_index_newest, filled |-> bank_is_filled]

C29_RecoveryAfterRejected ==
  [][ (C29_Rejected /\ now' = now + 1 /\ last'.op \in {"init", "addMessage"} /\ last'.ret = 0)
        => C29_BankIsDirect' = C29_Direct(last'.raw, now') ]_vars

\* C29, the part that holds: the accepted message comes in by the call that
\* rejected the message before it, or a message is stored already
C29_RecoveryBySameCall ==
  [][ (C29_Rejected /\ now' = now + 1 /\ last'.op \in {"init", "addMessage"} /\ last'.ret = 0 /\ (writes >= 1 \/ last'.op = "init"))
        => C29_BankIsDirect' = C29_Direct(last'.raw, now') ]_vars

\* The cases of C29_RecoveryBySameCall happen
C29_RecoveredByAddMessage == sensor = "PointCloud2" /\ last.op = "addMessage" /\ last.ret = 0 /\ writes >= 2 /\ now > writes


(***************************************************************************)
(* C30: during ingestion and reporting every slot index used lies in       *)
(* [0, depth - 1] and every angular index read or written lies in          *)
(* [0, points_per_scan - 1]: for the segments, also those at index 0 and   *)
(* at the last index, for the tracker's growth to the left and to the      *)
(* right and its mean index at every level, for the reads of the old slot  *)
(* at index_min_old and index_max_old, and for the bins of putPoints.      *)
(***************************************************************************)
\* The bins bank_put[p] the loop of putPoints visits for the points of a message
C30_BinsInBounds(points) ==
  \A k \in 1..Len(points) : \A nan_cast \in NaNCastsOf(points) :
    ~PointOutsideVolume(points[k])
      => LET span == PointIndexSpan(points[k], nan_cast)
         IN  span.min <= span.max => (0 <= span.min /\ span.max <= PointsPerScan - 1)

\* The indices of a reporting cycle
C30_CycleInBounds(c) ==
  /\ bank_index_newest \in Slots
  /\ \A k \in 1..Len(c.candidates) :
       LET obj == c.candidates[k]
       IN  /\ obj.index_min \in Indices /\ obj.index_max \in Indices
           /\ \A n \in 1..Len(obj.old.walk) :
                /\ obj.old.walk[n].level \in Slots
                /\ obj.old.walk[n].index_mean \in Indices
                /\ obj.old.walk[n].left \in Indices
                /\ obj.old.walk[n].right \in Indices
           /\ obj.tracked => /\ bank_index_put \in Slots
                             /\ obj.old.index_min_old \in Indices
                             /\ obj.old.index_max_old \in Indices

C30_IndicesInBounds ==
  [][ /\ (sensor = "PointCloud2" /\ now' = now + 1 /\ last'.raw # NoProfile)
          => /\ \A msg \in SparseClouds : InitPointCloud2(msg) => C30_BinsInBounds(msg.points)
             /\ \A points \in SparsePointLists, bank_prev \in PreviousSlot :
                  AddPointCloud2(points, bank_prev)
                    => /\ C30_BinsInBounds(points)
                       /\ bank_index_put \in Slots
                       /\ (last'.ret = 0 /\ bank_argument.ema_alpha < AlphaDen) => bank_index_newest \in Slots
      /\ (last'.op = "findAndReportMovingObjects" /\ cycle'.ran) => C30_CycleInBounds(cycle') ]_vars

\* C30, the part that holds: messages whose points carry numbers, handed to
\* a bank that holds a scan, and the reporting cycles
C30_NumbersInBounds ==
  [][ /\ (sensor = "PointCloud2" /\ now' = now + 1 /\ last'.raw # NoProfile)
          => /\ \A msg \in SparseClouds :
                  (C22_Numbers(msg.points) /\ InitPointCloud2(msg)) => C30_BinsInBounds(msg.points)
             /\ \A points \in SparsePointLists, bank_prev \in PreviousSlot :
                  (C22_Numbers(points) /\ writes >= 1 /\ AddPointCloud2(points, bank_prev))
                    => /\ C30_BinsInBounds(points)
                       /\ bank_index_put \in Slots
                       /\ bank_index_newest \in Slots
      /\ (last'.op = "findAndReportMovingObjects" /\ cycle'.ran) => C30_CycleInBounds(cycle') ]_vars

\* The reporting cycles of every bank
C30_ReportingInBounds == C23_Reporting => C30_CycleInBounds(cycle)
====
